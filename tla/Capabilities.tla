---------------------------- MODULE Capabilities ----------------------------
(***************************************************************************)
(* The CapabilitySet of codegen/src/ipc.rs: tokens are granted, delegated  *)
(* from process to process with fewer permissions, and revoked, alone or   *)
(* with everything delegated from them.  A token does not name the token   *)
(* it came from; revoke_with_propagation recognises the children of a      *)
(* token by their source process and depth.                                *)
(*                                                                         *)
(* Resources, signatures and expiry are left out.  No two tokens get the   *)
(* same id (grant is given one, delegate takes rand_u128), and a token's   *)
(* id here is its place in the order the tokens were made in.              *)
(***************************************************************************)
EXTENDS Integers, Sequences

CONSTANTS Pids,      \* processes
          Rights,    \* read, write, execute
          MaxDepth,  \* MAX_DELEGATION_DEPTH, 8 in the code
          MaxTokens  \* bound: how many tokens are made

ASSUME CapabilityAssumptions ==
  /\ MaxDepth \in Nat
  /\ MaxTokens \in Nat

VARIABLES
  tokens,   \* the tokens, by id
  revoked,  \* the revoked ids
  parent    \* history: the token each one was delegated from, 0 if granted

capVars == <<tokens, revoked, parent>>

Ids == 1 .. MaxTokens

Token == [source : Pids, target : Pids, rights : SUBSET Rights,
          depth : 0 .. MaxDepth]

CapTypeOK ==
  /\ tokens \in Seq(Token)
  /\ revoked \subseteq Ids
  /\ parent \in Seq(Nat) /\ Len(parent) = Len(tokens)

CapInit ==
  /\ tokens = <<>>
  /\ revoked = {}
  /\ parent = <<>>

------------------------------------------------------------------------------

\* The set's tokens after one more, that came from p.
Insert(token, p) ==
  /\ Len(tokens) < MaxTokens
  /\ tokens' = Append(tokens, token)
  /\ parent' = Append(parent, p)
  /\ UNCHANGED revoked

\* grant, of a token no other was made from.
Grant(p, q, r) ==
  Insert([source |-> p, target |-> q, rights |-> r, depth |-> 0], 0)

\* delegate: it asks for a token, its depth and its rights, not whether it was
\* revoked.
Delegate(from, q, r) ==
  /\ from \in DOMAIN tokens
  /\ tokens[from].depth < MaxDepth
  /\ r \subseteq tokens[from].rights
  /\ Insert([source |-> tokens[from].target, target |-> q, rights |-> r,
             depth |-> tokens[from].depth + 1], from)

\* revoke
Revoke(id) ==
  /\ revoked' = revoked \cup {id}
  /\ UNCHANGED <<tokens, parent>>

\* Mutant: the depth is compared as if granted tokens had depth 1.
ChildrenTooDeep(id) ==
  {c \in DOMAIN tokens : /\ id \in DOMAIN tokens
                         /\ tokens[c].source = tokens[id].target
                         /\ tokens[c].depth = tokens[id].depth + 2}

\* The tokens the walk takes for children of `id`.
Children(id) ==
  {c \in DOMAIN tokens : /\ id \in DOMAIN tokens
                         /\ tokens[c].source = tokens[id].target
                         /\ tokens[c].depth = tokens[id].depth + 1}

\* The tokens the walk revokes: it goes on from every token it revokes, and
\* stops at one that is revoked already.
Walk(id) ==
  LET reached[n \in 0 .. MaxTokens] ==
        IF n = 0 THEN {id} \ revoked
        ELSE LET before == reached[n - 1]
             IN before \cup ((UNION {Children(c) : c \in before}) \ revoked)
  IN reached[MaxTokens]

\* revoke_with_propagation
RevokeWithPropagation(id) ==
  /\ UNCHANGED <<tokens, parent>>
  /\ revoked' = revoked \cup Walk(id)

CapNext ==
  \/ \E p, q \in Pids, r \in SUBSET Rights : Grant(p, q, r)
  \/ \E from \in Ids, q \in Pids, r \in SUBSET Rights : Delegate(from, q, r)
  \/ \E id \in Ids : Revoke(id) \/ RevokeWithPropagation(id)

CapSpec == CapInit /\ [][CapNext]_capVars

------------------------------------------------------------------------------
(* Properties. *)

\* Whether d was made from id by n delegations, all the tokens on the way
\* unrevoked.
Lineage(d, id, n) ==
  LET up[k \in 0 .. n] ==
        IF k = 0 THEN d ELSE IF up[k - 1] = 0 THEN 0 ELSE parent[up[k - 1]]
  IN up[n] = id /\ \A k \in 0 .. n : up[k] \notin revoked

\* revoke_with_propagation finds every descendant although no token names
\* its parent: if the token was not revoked, all tokens delegated from it, at
\* any distance, over tokens that were not revoked either, are revoked with
\* it; and besides the token itself only tokens of a greater depth are.
RevocationReaches ==
  [][\A id \in Ids \ revoked :
       RevokeWithPropagation(id) =>
         /\ id \in revoked'
         /\ \A d \in DOMAIN tokens, n \in 0 .. MaxDepth :
              Lineage(d, id, n) => d \in revoked'
         /\ \A d \in revoked' \ (revoked \cup {id}) :
              tokens[d].depth > tokens[id].depth]_capVars

==============================================================================
