------------------------------- MODULE Signals -------------------------------
(***************************************************************************)
(* The signal table of one task (womb/kernel/ipc/signal.vuma).  Signals    *)
(* are sent to it at any time, also while a handler runs; the functions    *)
(* themselves run with interrupts masked, but the handler that             *)
(* signal_deliver calls does not.                                          *)
(***************************************************************************)
EXTENDS Integers

CONSTANTS LastSignal,  \* signals are 1 .. LastSignal, 32 in the code
          NoSignal     \* no handler runs

ASSUME SignalAssumptions == LastSignal \in Nat /\ NoSignal \notin Nat

Sigs == 1 .. LastSignal

VARIABLES
  handlers,  \* the signals with a handler
  mask,      \* the blocked signals
  pending,   \* the pending signals
  at,        \* the signal signal_check_and_deliver is at, 0 outside of it
  handling,  \* the signal whose handler runs, or NoSignal
  owed,      \* history: sent, and not taken by a handler or check since
  resent     \* history: sent while their own handler ran

sigVars == <<handlers, mask, pending, at, handling, owed, resent>>

SigTypeOK ==
  /\ handlers \subseteq Sigs /\ mask \subseteq Sigs /\ pending \subseteq Sigs
  /\ at \in 0 .. LastSignal + 1
  /\ handling \in Sigs \cup {NoSignal}
  /\ owed \subseteq Sigs /\ resent \subseteq Sigs

\* signal_init
SigInit ==
  /\ handlers = {} /\ mask = {} /\ pending = {}
  /\ at = 0 /\ handling = NoSignal
  /\ owed = {} /\ resent = {}

------------------------------------------------------------------------------

\* The task itself is at work: no handler runs and no pass is under way.
Idle == at = 0 /\ handling = NoSignal

\* signal_install of a handler, or of 0.
SignalInstall(s) ==
  /\ handlers' \in {handlers \cup {s}, handlers \ {s}}
  /\ UNCHANGED <<mask, pending, at, handling, owed, resent>>

\* signal_block, signal_unblock
SignalBlock(s) ==
  /\ mask' \in {mask \cup {s}, mask \ {s}}
  /\ UNCHANGED <<handlers, pending, at, handling, owed, resent>>

\* signal_send
SignalSend(s) ==
  /\ pending' = pending \cup {s}
  /\ owed' = owed \cup {s}
  /\ resent' = IF handling = s THEN resent \cup {s} ELSE resent
  /\ UNCHANGED <<handlers, mask, at, handling>>

\* signal_check: the lowest pending signal that is not blocked is taken.
SignalCheck ==
  /\ Idle
  /\ \E s \in pending \ mask :
       /\ \A t \in pending \ mask : s <= t
       /\ pending' = pending \ {s}
       /\ owed' = owed \ {s}
       /\ resent' = resent \ {s}
  /\ UNCHANGED <<handlers, mask, at, handling>>

\* Mutant: the clear of the pending bit clears the word.
ClearedWord(s) == {}

Cleared(s) == pending \ {s}

\* signal_deliver, up to the call of the handler.
Call(s) ==
  /\ s \in pending /\ s \in handlers
  /\ handling' = s
  /\ owed' = owed \ {s}
  /\ resent' = resent \ {s}
  /\ UNCHANGED <<handlers, mask, pending>>

SignalDeliver(s) == Idle /\ Call(s) /\ UNCHANGED at

\* The handler returns and signal_deliver clears the pending bit; a pass of
\* signal_check_and_deliver goes on with the next signal.
HandlerReturns ==
  /\ handling # NoSignal
  /\ pending' = Cleared(handling)
  /\ handling' = NoSignal
  /\ at' = IF at = 0 THEN 0 ELSE at + 1
  /\ UNCHANGED <<handlers, mask, owed, resent>>

\* signal_check_and_deliver: start, one signal, end.  It ignores the mask.
BeginPass ==
  /\ Idle
  /\ at' = 1
  /\ UNCHANGED <<handlers, mask, pending, handling, owed, resent>>

PassCalls == at \in Sigs /\ handling = NoSignal /\ Call(at) /\ UNCHANGED at

PassSkips ==
  /\ at > 0 /\ handling = NoSignal
  /\ at \notin pending \cap handlers
  /\ at' = IF at > LastSignal THEN 0 ELSE at + 1
  /\ UNCHANGED <<handlers, mask, pending, handling, owed, resent>>

SigNext ==
  \/ \E s \in Sigs : \/ SignalInstall(s) \/ SignalBlock(s)
                     \/ SignalSend(s) \/ SignalDeliver(s)
  \/ SignalCheck \/ HandlerReturns \/ BeginPass \/ PassCalls \/ PassSkips

SigSpec == SigInit /\ [][SigNext]_sigVars

------------------------------------------------------------------------------
(* Properties. *)

\* A signal that was sent stays pending until its handler is called or
\* signal_check returns it, whatever is sent, blocked, installed and
\* delivered around it.  The one exception is a signal sent again while its
\* own handler runs, the case signal_deliver's comment warns of.
OnlyResentLost == owed \subseteq pending \cup resent

==============================================================================
