---------------------------- MODULE MCIpcChannel ----------------------------
(* IpcChannel for TLC: the programs of MCIpcChannel.cfg.                   *)
EXTENDS IpcChannel

CONSTANTS m, w1, w2

Calls(main, first, second) ==
  [p \in {m, w1, w2} |-> CASE p = m -> main [] p = w1 -> first [] OTHER -> second]

\* Handles closed, opened again over the same descriptors, and used stale, on
\* both sides of a spawn.
Reopening ==
  Calls({"channel_open", "channel_close", "spawn_worker", "channel_send", "recv"},
        {"channel_open", "channel_close", "recv"}, {})

\* A worker that spawns a worker: three readers of one channel, two of them on
\* the same pipe, with timed receives racing the others.
Family ==
  Calls({"channel_open", "spawn_worker", "channel_send", "recv_timeout"},
        {"spawn_worker", "try_recv", "channel_send"},
        {"recv", "try_recv", "recv_timeout"})

\* Requests and replies, blocking receives before and after O_NONBLOCK is set,
\* and a parent that waits for its worker.
Serving ==
  Calls({"channel_open", "spawn_worker", "driver_call", "recv_result", "recv_proto",
         "wait_worker"},
        {"recv", "recv_result", "recv_proto", "try_recv", "channel_send"}, {})

MCPrograms == {Reopening, Family, Serving}
=============================================================================
