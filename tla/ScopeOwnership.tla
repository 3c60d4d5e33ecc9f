--------------------------- MODULE ScopeOwnership ---------------------------
(***************************************************************************)
(* What claims promise: leases on sets of scopes, each step of which       *)
(* happens at the instant now.  An owner holds its scopes while its lease  *)
(* is open and runs; nobody is granted a scope that competes with one that *)
(* is held; only a running lease is prolonged; a closed one stays closed.  *)
(***************************************************************************)
EXTENDS Naturals

CONSTANTS Owner, Scope, Overlap

VARIABLES now, lease

Lease == [scopes : SUBSET Scope, until : Nat, open : BOOLEAN]

Held(o) == lease[o].open /\ now < lease[o].until

Competing(S, T) == \E s \in S, t \in T : <<s, t>> \in Overlap

Free(o, S) == \A q \in Owner \ {o} : Held(q) => ~ Competing(S, lease[q].scopes)

Init ==
  /\ now = 0
  /\ lease = [o \in Owner |-> [scopes |-> {}, until |-> 0, open |-> TRUE]]

(* The lease of o becomes l, the others stay.                              *)
Becomes(o, l) == lease' = [lease EXCEPT ![o] = l] /\ UNCHANGED now

(* A lease that is new or has run out is granted, with the scopes it had.  *)
Grant(o) ==
  LET l == lease'[o] IN
    /\ lease[o].open /\ l.open
    /\ lease[o].scopes # {} => l.scopes = lease[o].scopes
    /\ l.until > lease[o].until
    /\ Free(o, l.scopes)
    /\ l \in Lease
    /\ Becomes(o, l)

(* More scopes under the same term.                                        *)
Widen(o) ==
  LET l == lease'[o] IN
    /\ lease[o].open /\ l.open
    /\ lease[o].scopes \subseteq l.scopes
    /\ l.until = lease[o].until
    /\ Free(o, l.scopes \ lease[o].scopes)
    /\ l \in Lease
    /\ Becomes(o, l)

(* A running lease is prolonged.                                           *)
Prolong(o) ==
  LET l == lease'[o] IN
    /\ Held(o)
    /\ l.until > lease[o].until
    /\ l = [lease[o] EXCEPT !.until = l.until]
    /\ l \in Lease
    /\ Becomes(o, l)

(* A lease is given up for good.                                           *)
Close(o) ==
  /\ lease[o].open
  /\ Becomes(o, [lease[o] EXCEPT !.open = FALSE])

Pass == now' = now + 1 /\ UNCHANGED lease

Next == Pass \/ \E o \in Owner : Grant(o) \/ Widen(o) \/ Prolong(o) \/ Close(o)

Spec == Init /\ [][Next]_<<now, lease>>

(* No two owners hold competing scopes.                                    *)
Exclusion ==
  \A o, q \in Owner : o # q /\ Held(o) /\ Held(q) =>
    ~ Competing(lease[o].scopes, lease[q].scopes)
=============================================================================
