----------------------------- MODULE LedgerLog -----------------------------
(***************************************************************************)
(* What a LedgerPort promises its callers: one log, extended at its end,   *)
(* of which every caller sees the whole at the moment it looks.  An append *)
(* takes effect at one moment between its call and its return, and if it   *)
(* names the head it expects, behind that head or not at all.  A failure   *)
(* of the machine may take away the end of the log, but nothing that an    *)
(* append has reported as recorded.                                        *)
(***************************************************************************)
EXTENDS Naturals, Sequences

CONSTANTS Caller, Draft

VARIABLES
  log,        \* what has been recorded
  promised,   \* how much of it has been acknowledged
  view,       \* the log as each caller last saw it
  asked       \* the append of each caller whose outcome it does not know:
              \* nothing, or one draft with no or one head it expects

Init ==
  /\ log = <<>> /\ promised = 0
  /\ view = [c \in Caller |-> <<>>]
  /\ asked = [c \in Caller |-> {}]

Ask(c) ==
  /\ \E d \in Draft, heads \in {{}, {view[c]}} :
       asked' = [asked EXCEPT ![c] = {[draft |-> d, expected |-> heads]}]
  /\ UNCHANGED <<log, promised, view>>

(* The append fails or its caller dies, and will not take effect any more. *)
Drop(c) ==
  /\ asked' = [asked EXCEPT ![c] = {}]
  /\ UNCHANGED <<log, promised, view>>

TakesEffect(a) == a.expected \subseteq {log} /\ log' = Append(log, a.draft)

(* The caller may never learn of it.                                       *)
Record(c) ==
  /\ \E a \in asked[c] : TakesEffect(a)
  /\ asked' \in {asked, [asked EXCEPT ![c] = {}]}
  /\ UNCHANGED <<promised, view>>

(* An append returns its entry, recorded now or before: the caller knows   *)
(* the log up to there, and so much the log may not lose any more.         *)
Acknowledge(c) ==
  /\ \E a \in asked[c] :
       /\ TakesEffect(a) \/ UNCHANGED log
       /\ \E n \in DOMAIN log' :
            /\ log'[n] = a.draft
            /\ a.expected \subseteq {SubSeq(log', 1, n - 1)}
            /\ view' = [view EXCEPT ![c] = SubSeq(log', 1, n)]
            /\ promised' = IF n > promised THEN n ELSE promised
  /\ asked' = [asked EXCEPT ![c] = {}]

Look(c) ==
  /\ view' = [view EXCEPT ![c] = log]
  /\ UNCHANGED <<log, promised, asked>>

(* An empty log is given the records of another.                           *)
Import ==
  /\ log = <<>> /\ log' \in Seq(Draft)
  /\ UNCHANGED <<promised, view, asked>>

Lose ==
  /\ \E n \in promised..Len(log) : log' = SubSeq(log, 1, n)
  /\ asked' = [c \in Caller |-> {}]
  /\ UNCHANGED <<promised, view>>

Next ==
  \/ Import \/ Lose
  \/ \E c \in Caller : Ask(c) \/ Drop(c) \/ Record(c) \/ Acknowledge(c) \/ Look(c)

Spec == Init /\ [][Next]_<<log, promised, view, asked>>
=============================================================================
