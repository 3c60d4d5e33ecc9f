-------------------------- MODULE FrogIntentProofs --------------------------
(***************************************************************************)
(* Theorems about FrogIntent for any number of processes, plans, tasks,    *)
(* scopes and sessions, whatever is asked and whoever dies.                *)
(*                                                                         *)
(* The ledger only grows.  So what a call has found in it stays in it, and *)
(* what a call has not found is still not there when its append compares   *)
(* the head, for any append in between has moved the head.  Of the two     *)
(* records that are appended to any log one repeats, but for "done", what  *)
(* is in the log already, and the other is a Change Set that covers the    *)
(* scopes of the promotion it was made for: that is enough for claims of   *)
(* one Change Set to compete with one another.                             *)
(***************************************************************************)
EXTENDS FrogIntent, FiniteSetTheorems, SequenceTheorems, WellFoundedInduction, TLAPS

InLog(e) == \E i \in DOMAIN log : log[i] = e
Has(kind, id) == \E i \in DOMAIN log : log[i].kind = kind /\ log[i].id = id

(* The scopes of some task that was promoted into the Change Set x.        *)
CoversPromotion(x, scopes) ==
  \E i \in DOMAIN log : /\ log[i].kind = "frog_task_promotion" /\ log[i].change = x
                        /\ log[i].scopes \subseteq scopes

Backed(e) ==
  /\ e.kind = "frog_task_promotion" => e.scopes # {}
  /\ e.kind = "changeset" => CoversPromotion(e.id, e.scopes)
  /\ e.kind = "claim" => CoversPromotion(e.change, e.scopes)

(* What e may be that is appended to the log: a receipt or bundle is new; a *)
(* promotion is the first of its task or completes it; a Change Set and a  *)
(* claim cover a promotion; a claim is new and competes with none, or it   *)
(* gives up the one it was.                                                *)
Appendable(e) ==
  /\ Backed(e)
  /\ e.kind \in {"frog_snapshot", "imported_bundle"} => ~ Has(e.kind, e.id)
  /\ e.kind = "frog_task_promotion" =>
       \A i \in DOMAIN log : log[i].kind = e.kind /\ log[i].id = e.id =>
         e.done /\ e.change = log[i].change /\ e.scopes = log[i].scopes
  /\ e.kind = "claim" =>
       /\ e.open => \A k \in Claims : ~ Competes(k, e.scopes)
       /\ \A i \in DOMAIN log : log[i].kind = e.kind /\ log[i].id = e.id =>
            /\ ~ e.open /\ e.change = log[i].change
            /\ e.scopes = log[i].scopes /\ e.session = log[i].session

SameEntity(i, j) == log[i].kind = log[j].kind /\ log[i].id = log[j].id

(* What the log is by such appends.                                        *)
LogOK ==
  /\ \A j \in DOMAIN log : \A i \in 1..j-1 : SameEntity(i, j) =>
       /\ log[j].kind \notin {"frog_snapshot", "imported_bundle"}
       /\ log[j].kind = "frog_task_promotion" =>
            log[j].done /\ log[j].change = log[i].change /\ log[j].scopes = log[i].scopes
       /\ log[j].kind = "claim" =>
            /\ ~ log[j].open /\ log[j].change = log[i].change
            /\ log[j].scopes = log[i].scopes /\ log[j].session = log[i].session
  /\ \A i \in DOMAIN log : Backed(log[i])
  /\ \A k, l \in Claims : k.open /\ l.open /\ k.scopes \cap l.scopes # {} => k = l

Promoting == {"get", "create", "plan", "complete", "claims", "scopes", "acquiring", "acquire"}
Claiming == {"eligible", "latest", "reading", "reserve"} \cup Promoting

(* What a call asks for where it is.                                       *)
AskOK(c) ==
  LET k == call[c]  r == call[c].req IN
  /\ k.pc # "idle" => r \in Requests
  /\ k.pc \in {"snapshot", "record"} => r.op \in {"import", "bundle"}
  /\ k.pc \in Claiming => r.op = "claim" /\ (None \in {r.change, r.claim} => k.n # 0)
  /\ k.pc \in {"load", "store"} => r.op = "amend"
  /\ k.pc \in {"releasing", "release"} => r.op = "release"

(* What a call has found in the log.                                       *)
FoundOK(c) ==
  LET k == call[c]  r == call[c].req IN
  /\ k.pc \in Promoting =>
       /\ k.promo \in Promotion /\ InLog(k.promo)
       /\ k.promo.id = r.task /\ k.promo.scopes = r.scopes
  /\ k.pc \in Promoting \ {"get", "create", "plan"} => Has("changeset", k.promo.change)
  /\ k.pc \in Promoting \ {"get", "create", "plan", "complete"} =>
       InLog([k.promo EXCEPT !.done = TRUE])
  /\ k.pc \in {"acquiring", "acquire"} => k.seen.id = k.promo.change
  /\ k.pc \in {"acquiring", "acquire", "store"} => k.seen \in ChangeSet /\ InLog(k.seen)

(* What a call has not found, and what it knows of the claims, as long as  *)
(* the head is the one it has read.                                        *)
HeadOK(c) ==
  LET k == call[c]  r == call[c].req IN
  /\ k.head <= Len(log)
  /\ Unmoved(c) =>
       /\ k.pc = "record" =>
            ~ Has(IF r.op = "import" THEN "frog_snapshot" ELSE "imported_bundle", r.digest)
       /\ k.pc = "reserve" => ~ Has("frog_task_promotion", r.task)
       /\ k.pc = "acquire" => \A l \in Claims : l.id # ClaimName(c) /\ ~ Competes(l, k.seen.scopes)
       /\ k.pc = "release" => Has("claim", r.claim)

CallOK(c) == AskOK(c) /\ FoundOK(c) /\ HeadOK(c)

(* What a caller was told is in the log.                                   *)
AnswersOK ==
  \A a \in answers :
    /\ \E i \in DOMAIN log : /\ log[i].kind = "frog_task_promotion" /\ log[i].id = a.task
                             /\ log[i].change = a.change /\ log[i].scopes = a.scopes
                             /\ log[i].done
    /\ \E i \in DOMAIN log : /\ log[i].kind = "claim" /\ log[i].id = a.claim
                             /\ log[i].change = a.change /\ log[i].session = a.session

(* The generated ids that are in use; each belongs to a call of its own.   *)
Mentions(e, i) ==
  \/ e.kind \in {"changeset", "claim"} /\ i = e.id
  \/ e.kind \in {"frog_task_promotion", "claim"} /\ i = e.change

Used ==
  {i \in 1..MaxCalls : \/ \E j \in DOMAIN log : Mentions(log[j], i)
                       \/ \E c \in Caller : i = call[c].n}

IInv ==
  /\ TypeOK
  /\ Cardinality(Used) <= made
  /\ LogOK
  /\ \A c \in Caller : CallOK(c)
  /\ AnswersOK
-----------------------------------------------------------------------------
(* The library's induction theorems take an operator; that subsets of a    *)
(* finite set are well-founded does not, and is enough for a greatest one. *)
LEMMA GreatestOf ==
  ASSUME NEW n \in Nat, NEW T \in SUBSET (1..n), T # {}
  PROVE  \E x \in T : \A y \in T : y <= x
<1>. DEFINE above == {x..n : x \in T}
            R == StrictSubsetOrdering(1..n)
<1>1. above \subseteq SUBSET (1..n)
  OBVIOUS
<1>2. above # {}
  OBVIOUS
<1>3. IsWellFoundedOn(R, SUBSET (1..n))
  <2>1. IsFiniteSet(1..n)
    BY FS_Interval
  <2>2. FiniteSubsetsOf(1..n) = SUBSET (1..n)
    BY <2>1, FS_FiniteSubsetsOfFinite
  <2>3. IsWellFoundedOn(StrictSubsetOrdering(1..n), FiniteSubsetsOf(1..n))
    BY FS_StrictSubsetOrderingWellFounded
  <2>. QED BY <2>2, <2>3
<1>4. PICK U \in above : \A V \in above : ~ (<<V, U>> \in R)
  <2>. HIDE DEF R, above
  <2>. QED BY <1>1, <1>2, <1>3, WFMin
<1>5. PICK x \in T : U = x..n
  OBVIOUS
<1>6. ASSUME NEW y \in T, y > x PROVE FALSE
  <2>1. y..n \in above
    OBVIOUS
  <2>2. y..n \subseteq x..n /\ x \in x..n /\ x \notin y..n
    BY <1>6
  <2>3. <<y..n, U>> \in R
    BY <1>1, <1>5, <2>1, <2>2 DEF StrictSubsetOrdering
  <2>. QED BY <1>4, <2>1, <2>3
<1>7. \A y \in T : y \in Nat
  OBVIOUS
<1>. QED BY <1>6, <1>7

LEMMA EntryKinds ==
  ASSUME NEW e \in Entry
  PROVE  /\ e # Nothing /\ e.kind # "nothing"
         /\ e.kind = "frog_snapshot" => e \in Receipt
         /\ e.kind = "imported_bundle" => e \in Bundle
         /\ e.kind = "frog_task_promotion" => e \in Promotion
         /\ e.kind = "changeset" => e \in ChangeSet
         /\ e.kind = "claim" => e \in Claim
BY DEF Entry, Receipt, Bundle, Promotion, ChangeSet, Claim, Nothing

LEMMA LogEntries ==
  ASSUME TypeOK
  PROVE  /\ Len(log) \in Nat /\ DOMAIN log = 1..Len(log)
         /\ \A i \in DOMAIN log : log[i] \in Entry
BY DEF TypeOK

(* The latest record of an entity.                                         *)
LEMMA LatestIs ==
  ASSUME TypeOK, NEW kind, NEW id
  PROVE  /\ ~ Has(kind, id) => Latest(kind, id) = Nothing
         /\ Has(kind, id) =>
              /\ Latest(kind, id) # Nothing
              /\ \E i \in DOMAIN log :
                   /\ Latest(kind, id) = log[i] /\ log[i].kind = kind /\ log[i].id = id
                   /\ \A j \in DOMAIN log : log[j].kind = kind /\ log[j].id = id => j <= i
<1>. DEFINE at == {i \in DOMAIN log : log[i].kind = kind /\ log[i].id = id}
            last == CHOOSE i \in at : \A j \in at : j <= i
<1>1. Latest(kind, id) = IF at = {} THEN Nothing ELSE log[last]
  BY DEF Latest
<1>2. CASE at = {}
  BY <1>1, <1>2 DEF Has
<1>3. CASE at # {}
  <2>1. at \in SUBSET (1..Len(log)) /\ Len(log) \in Nat
    BY LogEntries
  <2>2. \E i \in at : \A j \in at : j <= i
    <3>. HIDE DEF at
    <3>. QED BY <1>3, <2>1, GreatestOf
  <2>3. last \in at /\ \A j \in at : j <= last
    <3>. HIDE DEF at
    <3>. QED BY <2>2
  <2>4. log[last] # Nothing
    BY <2>3, LogEntries, EntryKinds
  <2>. QED BY <1>1, <1>3, <2>3, <2>4 DEF Has
<1>. QED BY <1>2, <1>3

LEMMA LatestIn ==
  ASSUME TypeOK, NEW kind, NEW id, Latest(kind, id) # Nothing
  PROVE  /\ InLog(Latest(kind, id)) /\ Latest(kind, id) \in Entry
         /\ Latest(kind, id).kind = kind /\ Latest(kind, id).id = id
         /\ Has(kind, id)
BY LatestIs, LogEntries DEF InLog, Has

(* Claims are the last records of every claim.                             *)
LEMMA ClaimsAre ==
  ASSUME TypeOK
  PROVE  \A k : k \in Claims <=>
           \E i \in DOMAIN log :
             /\ k = log[i] /\ log[i].kind = "claim"
             /\ \A j \in DOMAIN log : j > i /\ log[j].kind = "claim" => log[j].id # log[i].id
<1>. DEFINE L == {i \in DOMAIN log :
                    /\ log[i].kind = "claim"
                    /\ \A j \in i+1..Len(log) : log[j].kind = "claim" => log[j].id # log[i].id}
<1>1. \A i \in DOMAIN log : \A j : j \in i+1..Len(log) <=> j \in DOMAIN log /\ j > i
  BY LogEntries
<1>2. \A i \in L : /\ i \in DOMAIN log /\ log[i].kind = "claim"
                   /\ \A j \in DOMAIN log : j > i /\ log[j].kind = "claim" => log[j].id # log[i].id
  BY <1>1
<1>3. ASSUME NEW i \in DOMAIN log, log[i].kind = "claim",
             \A j \in DOMAIN log : j > i /\ log[j].kind = "claim" => log[j].id # log[i].id
      PROVE  i \in L
  BY <1>1, <1>3
<1>4. Claims = {log[i] : i \in L}
  BY DEF Claims
<1>. HIDE DEF L
<1>5. ASSUME NEW k \in Claims
      PROVE  \E i \in DOMAIN log :
             /\ k = log[i] /\ log[i].kind = "claim"
             /\ \A j \in DOMAIN log : j > i /\ log[j].kind = "claim" => log[j].id # log[i].id
  <2>1. PICK i \in L : k = log[i]
    BY <1>4
  <2>. QED BY <1>2, <2>1
<1>6. ASSUME NEW i \in DOMAIN log, log[i].kind = "claim",
             \A j \in DOMAIN log : j > i /\ log[j].kind = "claim" => log[j].id # log[i].id
      PROVE  log[i] \in Claims
  BY <1>3, <1>4, <1>6
<1>. QED BY <1>5, <1>6

LEMMA ClaimsAlways ==
  TypeOK => \A k : k \in Claims <=>
              \E i \in DOMAIN log :
                /\ k = log[i] /\ log[i].kind = "claim"
                /\ \A j \in DOMAIN log : j > i /\ log[j].kind = "claim" => log[j].id # log[i].id
BY ClaimsAre

(* There is one of them for each claim that has a record.                  *)
LEMMA ClaimsCover ==
  ASSUME TypeOK, NEW id, Has("claim", id)
  PROVE  \E k \in Claims : k.id = id
<1>1. PICK i \in DOMAIN log :
        /\ log[i].kind = "claim" /\ log[i].id = id
        /\ \A j \in DOMAIN log : log[j].kind = "claim" /\ log[j].id = id => j <= i
  BY LatestIs
<1>2. log[i] \in Claims
  <2>1. \A j \in DOMAIN log : j > i /\ log[j].kind = "claim" => log[j].id # log[i].id
    BY <1>1, LogEntries
  <2>. QED BY <1>1, <2>1, ClaimsAre
<1>. QED BY <1>1, <1>2

LEMMA ClaimsUnique ==
  ASSUME TypeOK, NEW k \in Claims, NEW l \in Claims, k.id = l.id
  PROVE  k = l
<1>1. PICK i \in DOMAIN log :
        /\ k = log[i] /\ log[i].kind = "claim"
        /\ \A j \in DOMAIN log : j > i /\ log[j].kind = "claim" => log[j].id # log[i].id
  BY ClaimsAre
<1>2. PICK j \in DOMAIN log :
        /\ l = log[j] /\ log[j].kind = "claim"
        /\ \A m \in DOMAIN log : m > j /\ log[m].kind = "claim" => log[m].id # log[j].id
  BY ClaimsAre
<1>3. ~ (i > j) /\ ~ (j > i)
  BY <1>1, <1>2
<1>. QED BY <1>1, <1>2, <1>3, LogEntries

(* An append leaves what is there and may replace one claim.               *)
LEMMA Appended ==
  ASSUME TypeOK, NEW e \in Entry, Append1(e)
  PROVE  /\ log' \in Seq(Entry) /\ Len(log') = Len(log) + 1
         /\ DOMAIN log' = DOMAIN log \cup {Len(log) + 1} /\ Len(log) + 1 \notin DOMAIN log
         /\ \A i \in DOMAIN log : log'[i] = log[i]
         /\ log'[Len(log) + 1] = e
<1>1. log' = Append(log, e) /\ log \in Seq(Entry)
  BY DEF Append1, TypeOK
<1>. QED BY <1>1, AppendProperties

LEMMA ClaimsAppended ==
  ASSUME TypeOK, TypeOK', NEW e \in Entry, Append1(e)
  PROVE  /\ e.kind # "claim" => Claims' = Claims
         /\ e.kind = "claim" => Claims' = {k \in Claims : k.id # e.id} \cup {e}
<1>. DEFINE n == Len(log) + 1
<1>1. /\ DOMAIN log' = DOMAIN log \cup {n} /\ n \notin DOMAIN log
      /\ \A i \in DOMAIN log : log'[i] = log[i] /\ i < n
      /\ log'[n] = e /\ n \in Nat
  <2>1. n \in Nat /\ \A i \in DOMAIN log : i < n
    BY LogEntries
  <2>2. /\ DOMAIN log' = DOMAIN log \cup {n} /\ n \notin DOMAIN log
        /\ \A i \in DOMAIN log : log'[i] = log[i]
        /\ log'[n] = e
    BY Appended
  <2>. QED BY <2>1, <2>2
<1>2. \A i \in DOMAIN log : i \in Nat
  BY LogEntries
<1>. HIDE DEF n
<1>3. \A k : k \in Claims' <=>
           \E i \in DOMAIN log' :
             /\ k = log'[i] /\ log'[i].kind = "claim"
             /\ \A j \in DOMAIN log' : j > i /\ log'[j].kind = "claim" => log'[j].id # log'[i].id
  <2>1. (TypeOK => \A k : k \in Claims <=>
              \E i \in DOMAIN log :
                /\ k = log[i] /\ log[i].kind = "claim"
                /\ \A j \in DOMAIN log : j > i /\ log[j].kind = "claim" => log[j].id # log[i].id)'
    BY ClaimsAlways, PTL
  <2>. QED BY <2>1
<1>4. ASSUME NEW k, k \in Claims, e.kind = "claim" => k.id # e.id PROVE k \in Claims'
  <2>1. PICK i \in DOMAIN log :
          /\ k = log[i] /\ log[i].kind = "claim"
          /\ \A j \in DOMAIN log : j > i /\ log[j].kind = "claim" => log[j].id # log[i].id
    BY <1>4, ClaimsAre
  <2>2. \A j \in DOMAIN log' : j > i /\ log'[j].kind = "claim" => log'[j].id # log'[i].id
    BY <1>1, <1>4, <2>1
  <2>. QED BY <1>1, <1>3, <2>1, <2>2
<1>5. ASSUME NEW k, k \in Claims', k # e \/ e.kind # "claim"
      PROVE  k \in Claims /\ (e.kind = "claim" => k.id # e.id)
  <2>1. PICK i \in DOMAIN log' :
          /\ k = log'[i] /\ log'[i].kind = "claim"
          /\ \A j \in DOMAIN log' : j > i /\ log'[j].kind = "claim" => log'[j].id # log'[i].id
    BY <1>3, <1>5
  <2>2. i \in DOMAIN log
    BY <1>1, <1>5, <2>1
  <2>3. k \in Claims
    BY <1>1, <2>1, <2>2, ClaimsAre
  <2>4. e.kind = "claim" => k.id # e.id
    BY <1>1, <2>1, <2>2
  <2>. QED BY <2>3, <2>4
<1>6. e.kind = "claim" => e \in Claims'
  <2>1. \A j \in DOMAIN log' : ~ (j > n)
    BY <1>1, <1>2
  <2>. QED BY <1>1, <1>3, <2>1
<1>7. \A k : k \in Claims' /\ e.kind = "claim" /\ k # e => k.id # e.id
  BY <1>5
<1>. QED BY <1>4, <1>5, <1>6
-----------------------------------------------------------------------------
(* An append to the log: what is in it stays, and only e is added.         *)
LEMMA LogGrows ==
  ASSUME TypeOK, NEW e \in Entry, Append1(e)
  PROVE  /\ InLog(e)' /\ \A x : InLog(x) => InLog(x)'
         /\ \A kind, id : Has(kind, id)' <=> Has(kind, id) \/ (e.kind = kind /\ e.id = id)
         /\ \A x, scopes : CoversPromotion(x, scopes) => CoversPromotion(x, scopes)'
<1>. DEFINE n == Len(log) + 1
<1>1. /\ DOMAIN log' = DOMAIN log \cup {n}
      /\ \A i \in DOMAIN log : log'[i] = log[i]
      /\ log'[n] = e
  BY Appended
<1>. HIDE DEF n
<1>. QED BY <1>1 DEF InLog, Has, CoversPromotion

LEMMA LogStep ==
  ASSUME TypeOK, TypeOK', LogOK, NEW e \in Entry, Appendable(e), Append1(e)
  PROVE  LogOK'
<1>. DEFINE n == Len(log) + 1
<1>1. n \in Nat /\ \A i \in DOMAIN log : i < n
  BY LogEntries
<1>2. /\ DOMAIN log' = DOMAIN log \cup {n} /\ n \notin DOMAIN log
      /\ \A i \in DOMAIN log : log'[i] = log[i]
      /\ log'[n] = e
  BY Appended
<1>3. /\ \A i \in 1..n-1 : i \in DOMAIN log
      /\ \A j \in DOMAIN log : \A i \in 1..j-1 : i \in DOMAIN log
  BY LogEntries
<1>. HIDE DEF n
<1>4. ASSUME NEW j \in DOMAIN log', NEW i \in 1..j-1, SameEntity(i, j)'
      PROVE  /\ log'[j].kind \notin {"frog_snapshot", "imported_bundle"}
             /\ log'[j].kind = "frog_task_promotion" =>
                  log'[j].done /\ log'[j].change = log'[i].change /\ log'[j].scopes = log'[i].scopes
             /\ log'[j].kind = "claim" =>
                  /\ ~ log'[j].open /\ log'[j].change = log'[i].change
                  /\ log'[j].scopes = log'[i].scopes /\ log'[j].session = log'[i].session
  <2>1. log'[i].kind = log'[j].kind /\ log'[i].id = log'[j].id
    BY <1>4 DEF SameEntity
  <2>2. CASE j \in DOMAIN log
    <3>1. i \in DOMAIN log /\ log'[i] = log[i] /\ log'[j] = log[j]
      BY <1>2, <1>3, <1>4, <2>2
    <3>2. SameEntity(i, j)
      BY <2>1, <3>1 DEF SameEntity
    <3>. QED BY <1>4, <2>2, <3>1, <3>2 DEF LogOK
  <2>3. CASE j = n
    <3>1. i \in DOMAIN log /\ log'[i] = log[i] /\ log'[j] = e
      BY <1>2, <1>3, <1>4, <2>3
    <3>2. Has(e.kind, e.id) /\ log[i].kind = e.kind /\ log[i].id = e.id
      BY <2>1, <3>1 DEF Has
    <3>. QED BY <3>1, <3>2 DEF Appendable
  <2>. QED BY <1>2, <2>2, <2>3
<1>5. \A r : Backed(r) => Backed(r)'
  BY LogGrows DEF Backed
<1>6. \A i \in DOMAIN log' : \A r : r = log'[i] => Backed(r)'
  BY <1>2, <1>5 DEF LogOK, Appendable
<1>7. ASSUME NEW i \in DOMAIN log' PROVE Backed(log[i])'
  BY <1>6 DEF Backed, CoversPromotion
<1>8. ASSUME NEW k \in Claims', NEW l \in Claims', k.open, l.open, k.scopes \cap l.scopes # {}
      PROVE  k = l
  <2>1. CASE k \in Claims /\ l \in Claims
    BY <1>8, <2>1 DEF LogOK
  <2>2. CASE e.kind = "claim" /\ (k = e \/ l = e)
    BY <1>8, <2>2, ClaimsAppended DEF Appendable, Competes
  <2>. QED BY <1>8, <2>1, <2>2, ClaimsAppended
<1>. QED BY <1>4, <1>7, <1>8 DEF LogOK, SameEntity
-----------------------------------------------------------------------------
(* All promotions of a task are into one Change Set with one set of scopes, *)
(* all records of a claim name one Change Set, its scopes and its session. *)
LEMMA RecordsAgree ==
  ASSUME TypeOK, LogOK, NEW i \in DOMAIN log, NEW j \in DOMAIN log, SameEntity(i, j)
  PROVE  /\ log[i].kind = "frog_task_promotion" =>
              log[i].change = log[j].change /\ log[i].scopes = log[j].scopes
         /\ log[i].kind = "claim" =>
              /\ log[i].change = log[j].change /\ log[i].scopes = log[j].scopes
              /\ log[i].session = log[j].session
<1>1. i = j \/ i \in 1..j-1 \/ j \in 1..i-1
  BY LogEntries
<1>2. SameEntity(j, i)
  BY DEF SameEntity
<1>3. log[i].kind = log[j].kind
  BY DEF SameEntity
<1>4. CASE i \in 1..j-1
  BY <1>3, <1>4 DEF LogOK
<1>5. CASE j \in 1..i-1
  BY <1>2, <1>3, <1>5 DEF LogOK
<1>. QED BY <1>1, <1>4, <1>5

(* What is found in the log stays found; what is not found is of the head. *)
LEMMA CallKept ==
  ASSUME TypeOK, NEW d \in Caller, CallOK(d), call'[d] = call[d],
         UNCHANGED log \/ \E e \in Entry : Append1(e)
  PROVE  CallOK(d)'
<1>1. AskOK(d)'
  BY DEF CallOK, AskOK
<1>2. FoundOK(d)'
  <2>1. (\A x : InLog(x) => InLog(x)') /\ \A kind, id : Has(kind, id) => Has(kind, id)'
    BY LogGrows DEF InLog, Has
  <2>. QED BY <2>1 DEF CallOK, FoundOK, InLog, Has
<1>3. HeadOK(d)'
  <2>1. CASE UNCHANGED log
    BY <2>1 DEF CallOK, HeadOK, Has, Claims, Unmoved, ClaimName, Competes
  <2>2. CASE \E e \in Entry : Append1(e)
    <3>1. Len(log') = Len(log) + 1
      BY <2>2, Appended
    <3>2. call[d].head <= Len(log) /\ call[d].head \in Nat /\ Len(log) \in Nat
      BY LogEntries DEF CallOK, HeadOK, TypeOK, Call
    <3>3. ~ Unmoved(d)' /\ call'[d].head <= Len(log')
      BY <3>1, <3>2 DEF Unmoved
    <3>. QED BY <3>3 DEF HeadOK
  <2>. QED BY <2>1, <2>2
<1>. QED BY <1>1, <1>2, <1>3 DEF CallOK

LEMMA IdleOK ==
  ASSUME NEW c \in Caller, call'[c] = Idle, log' \in Seq(Entry)
  PROVE  CallOK(c)'
<1>1. /\ call'[c].pc = "idle" /\ call'[c].head = 0
  BY DEF Idle
<1>2. Len(log') \in Nat
  OBVIOUS
<1>. QED BY <1>1, <1>2 DEF CallOK, AskOK, FoundOK, HeadOK, Promoting, Claiming

LEMMA IdleType == Idle \in Call /\ Idle.n = 0
BY FrogAssumption DEF Idle, Call, Pc

(* The record names only what is in use.                                   *)
Known(e) == \A i \in 1..MaxCalls : Mentions(e, i) => i \in Used

LEMMA UsedShrinks ==
  ASSUME IInv, NEW c \in Caller, NEW k \in Call, call' = [call EXCEPT ![c] = k],
         k.n \in {0, call[c].n}, made' = made,
         UNCHANGED log \/ \E e \in Entry : Append1(e) /\ Known(e)
  PROVE  Cardinality(Used') <= made'
<1>1. \A i \in 1..MaxCalls, d \in Caller : i = call'[d].n => \E b \in Caller : i = call[b].n
  BY DEF IInv, TypeOK
<1>2. \A i \in 1..MaxCalls, j \in DOMAIN log' : Mentions(log'[j], i) => i \in Used
  <2>1. CASE UNCHANGED log
    BY <2>1 DEF Used
  <2>2. CASE \E e \in Entry : Append1(e) /\ Known(e)
    <3>1. PICK e \in Entry : Append1(e) /\ Known(e)
      BY <2>2
    <3>2. TypeOK
      BY DEF IInv
    <3>3. \A j \in DOMAIN log' : log'[j] = e \/ (j \in DOMAIN log /\ log'[j] = log[j])
      BY <3>1, <3>2, Appended
    <3>. QED BY <3>1, <3>3 DEF Known, Used
  <2>. QED BY <2>1, <2>2
<1>3. Used' \subseteq Used
  BY <1>1, <1>2 DEF Used, Mentions
<1>4. IsFiniteSet(Used)
  <2>1. IsFiniteSet(1..MaxCalls)
    BY FS_Interval, FrogAssumption
  <2>. QED BY <2>1, FS_Subset DEF Used
<1>5. Cardinality(Used') <= Cardinality(Used) /\ Cardinality(Used') \in Nat /\ Cardinality(Used) \in Nat
  BY <1>3, <1>4, FS_Subset, FS_CardinalityType
<1>6. made \in Nat
  BY FrogAssumption DEF IInv, TypeOK
<1>. QED BY <1>5, <1>6 DEF IInv

(* What is to be shown of a step of c other than the start of a call.      *)
LEMMA Step ==
  ASSUME IInv, NEW c \in Caller, NEW k \in Call, call' = [call EXCEPT ![c] = k],
         k.n \in {0, call[c].n}, made' = made, answers' \subseteq Answer,
         \/ UNCHANGED log
         \/ \E e \in Entry : Append1(e) /\ Appendable(e) /\ Known(e),
         CallOK(c)', UNCHANGED answers \/ AnswersOK'
  PROVE  IInv'
<1>1. TypeOK /\ LogOK
  BY DEF IInv
<1>2. log' \in Seq(Entry)
  BY <1>1, Appended DEF TypeOK
<1>3. TypeOK'
  BY <1>1, <1>2 DEF TypeOK
<1>4. LogOK'
  <2>1. CASE UNCHANGED log
    BY <1>1, <2>1 DEF LogOK, Backed, CoversPromotion, SameEntity, Claims
  <2>. QED BY <1>1, <1>3, <2>1, LogStep
<1>5. ASSUME NEW d \in Caller PROVE CallOK(d)'
  <2>1. CASE d = c
    BY <2>1
  <2>2. CASE d # c
    <3>1. call'[d] = call[d] /\ CallOK(d)
      BY <2>2 DEF IInv, TypeOK
    <3>. QED BY <1>1, <3>1, CallKept
  <2>. QED BY <2>1, <2>2
<1>6. AnswersOK'
  <2>1. CASE UNCHANGED answers
    <3>1. \A x : InLog(x) => InLog(x)'
      BY <1>1, LogGrows DEF InLog
    <3>2. \A i \in DOMAIN log : \E j \in DOMAIN log' : log'[j] = log[i]
      BY <3>1 DEF InLog
    <3>. QED BY <2>1, <3>2 DEF IInv, AnswersOK
  <2>. QED BY <2>1
<1>7. Cardinality(Used)' <= made'
  BY UsedShrinks
<1>. QED BY <1>3, <1>4, <1>5, <1>6, <1>7 DEF IInv
-----------------------------------------------------------------------------
(* The ways a call moves: everything else of it is kept.                   *)
LEMMA Goes ==
  ASSUME TypeOK, NEW c \in Caller, NEW pc \in Pc, Goto(c, pc)
  PROVE  \E k \in Call :
           /\ call' = [call EXCEPT ![c] = k] /\ call'[c] = k
           /\ k.pc = pc /\ k.req = call[c].req /\ k.n = call[c].n /\ k.promo = call[c].promo
           /\ k.seen = call[c].seen /\ k.head = call[c].head /\ k.tries = call[c].tries
<1>. DEFINE k == [call[c] EXCEPT !.pc = pc]
<1>1. call[c] \in Call /\ call \in [Caller -> Call]
  BY DEF TypeOK
<1>2. /\ k \in Call /\ k.pc = pc /\ k.req = call[c].req /\ k.n = call[c].n
      /\ k.promo = call[c].promo /\ k.seen = call[c].seen /\ k.head = call[c].head
      /\ k.tries = call[c].tries
  BY <1>1 DEF Call
<1>3. call' = [call EXCEPT ![c] = k]
  BY DEF Goto
<1>. HIDE DEF k
<1>4. call'[c] = k
  BY <1>1, <1>3
<1>. QED BY <1>2, <1>3, <1>4

LEMMA Compares ==
  ASSUME TypeOK, NEW c \in Caller, NEW pc \in Pc, Compare(c, pc)
  PROVE  \E k \in Call :
           /\ call' = [call EXCEPT ![c] = k] /\ call'[c] = k
           /\ k.pc = pc /\ k.req = call[c].req /\ k.n = call[c].n /\ k.promo = call[c].promo
           /\ k.seen = call[c].seen /\ k.head = Len(log)
<1>. DEFINE k == [call[c] EXCEPT !.pc = pc, !.head = Len(log)]
<1>1. call[c] \in Call /\ call \in [Caller -> Call] /\ Len(log) \in Nat
  BY LogEntries DEF TypeOK
<1>2. /\ k \in Call /\ k.pc = pc /\ k.req = call[c].req /\ k.n = call[c].n
      /\ k.promo = call[c].promo /\ k.seen = call[c].seen /\ k.head = Len(log)
  BY <1>1 DEF Call
<1>3. call' = [call EXCEPT ![c] = k]
  BY DEF Compare
<1>. HIDE DEF k
<1>4. call'[c] = k
  BY <1>1, <1>3
<1>. QED BY <1>2, <1>3, <1>4

LEMMA InvParts ==
  ASSUME IInv, NEW c \in Caller
  PROVE  /\ TypeOK /\ LogOK /\ AskOK(c) /\ FoundOK(c) /\ HeadOK(c)
         /\ call[c] \in Call /\ answers \subseteq Answer
BY DEF IInv, CallOK, TypeOK

(* The call ends, and may have appended a record.                          *)
LEMMA Returns ==
  ASSUME IInv, NEW c \in Caller, Return(c), UNCHANGED <<made, answers>>,
         \/ UNCHANGED log
         \/ \E e \in Entry : Append1(e) /\ Appendable(e) /\ Known(e)
  PROVE  IInv'
<1>1. call' = [call EXCEPT ![c] = Idle] /\ call'[c] = Idle
  BY InvParts DEF Return, TypeOK
<1>2. TypeOK /\ log' \in Seq(Entry)
  BY InvParts, Appended DEF TypeOK
<1>3. CallOK(c)'
  BY <1>1, <1>2, IdleOK
<1>. QED BY <1>1, <1>3, Step, IdleType, InvParts

LEMMA Retries ==
  ASSUME IInv, NEW c \in Caller, NEW pc, Again(c, pc), UNCHANGED <<log, made, answers>>,
         \/ At(c, "record") /\ pc = "snapshot"
         \/ At(c, "reserve") /\ pc = "reading"
         \/ At(c, "acquire") /\ pc = "acquiring"
         \/ At(c, "release") /\ pc = "releasing"
  PROVE  IInv'
<1>1. CASE Return(c)
  BY <1>1, Returns
<1>2. CASE ~ Return(c)
  <2>. DEFINE k == [call[c] EXCEPT !.pc = pc, !.head = 0, !.tries = @ + 1]
  <2>1. call' = [call EXCEPT ![c] = k] /\ call[c].tries + 1 < MaxTries
    BY <1>2 DEF Again
  <2>2. call[c] \in Call /\ pc \in Pc
    BY InvParts DEF Pc
  <2>3. call[c].tries + 1 \in 0..MaxTries
    BY <2>1, <2>2, FrogAssumption DEF Call
  <2>4. /\ k \in Call /\ k.pc = pc /\ k.req = call[c].req /\ k.n = call[c].n
        /\ k.promo = call[c].promo /\ k.seen = call[c].seen /\ k.head = 0
    BY <2>2, <2>3 DEF Call
  <2>. HIDE DEF k
  <2>5. call'[c] = k
    BY <2>1, InvParts DEF TypeOK
  <2>6. AskOK(c)'
    BY <2>4, <2>5, InvParts DEF AskOK, At, Claiming, Promoting
  <2>7. FoundOK(c)'
    BY <2>4, <2>5, InvParts DEF FoundOK, At, Promoting, InLog, Has
  <2>8. HeadOK(c)'
    BY <2>4, <2>5, InvParts, LogEntries DEF HeadOK
  <2>. QED BY <2>1, <2>4, <2>6, <2>7, <2>8, Step, InvParts DEF CallOK
<1>. QED BY <1>1, <1>2

LEMMA CrashStep ==
  ASSUME IInv, NEW c \in Caller, Crash(c)
  PROVE  IInv'
BY Returns DEF Crash

(* ReadSnapshots and ReadBundles.                                          *)
LEMMA LookStep ==
  ASSUME IInv, NEW c \in Caller, NEW op \in {"import", "bundle"}, NEW kind,
         kind = IF op = "import" THEN "frog_snapshot" ELSE "imported_bundle",
         Asked(c, op), Look(c, kind)
  PROVE  IInv'
<1>1. CASE Return(c)
  BY <1>1, Returns DEF Look
<1>2. CASE ~ Return(c)
  <2>1. ~ Has(kind, call[c].req.digest)
    BY <1>2, InvParts, LatestIs DEF Look
  <2>2. Compare(c, "record") /\ "record" \in Pc /\ At(c, "snapshot")
    BY <1>2 DEF Look, Pc
  <2>3. PICK k \in Call :
          /\ call' = [call EXCEPT ![c] = k] /\ call'[c] = k
          /\ k.pc = "record" /\ k.req = call[c].req /\ k.n = call[c].n
          /\ k.promo = call[c].promo /\ k.seen = call[c].seen /\ k.head = Len(log)
    BY <2>2, Compares, InvParts
  <2>4. UNCHANGED <<log, made, answers>>
    BY DEF Look
  <2>5. AskOK(c)'
    BY <2>2, <2>3, InvParts DEF AskOK, At, Claiming, Promoting
  <2>6. FoundOK(c)'
    BY <2>3 DEF FoundOK, Promoting
  <2>7. HeadOK(c)'
    BY <2>1, <2>3, <2>4, LogEntries, InvParts DEF HeadOK, Has, Asked
  <2>. QED BY <2>3, <2>4, <2>5, <2>6, <2>7, Step, InvParts DEF CallOK
<1>. QED BY <1>1, <1>2

(* RecordSnapshot and RecordBundle.                                        *)
LEMMA StoreStep ==
  ASSUME IInv, NEW c \in Caller, NEW op \in {"import", "bundle"}, NEW kind,
         kind = IF op = "import" THEN "frog_snapshot" ELSE "imported_bundle",
         Asked(c, op), Store(c, kind)
  PROVE  IInv'
<1>1. CASE Unmoved(c)
  <2>. DEFINE e == [kind |-> kind, id |-> call[c].req.digest]
  <2>1. Append1(e) /\ Return(c)
    BY <1>1 DEF Store
  <2>2. call[c].req \in Request /\ call[c].req.op \in {"import", "bundle"}
    BY InvParts, FrogAssumption DEF Store, At, AskOK
  <2>3. call[c].req.digest \in Digest
    BY <2>2 DEF Request
  <2>4. e \in Entry /\ e.kind = kind /\ e.id = call[c].req.digest
    BY <2>3 DEF Entry, Receipt, Bundle
  <2>5. ~ Has(kind, call[c].req.digest)
    BY <1>1, InvParts DEF HeadOK, Asked, Store, At
  <2>. HIDE DEF e
  <2>6. Appendable(e)
    BY <2>4, <2>5 DEF Appendable, Backed
  <2>7. Known(e)
    BY <2>4 DEF Known, Mentions
  <2>. QED BY <2>1, <2>4, <2>6, <2>7, Returns DEF Store
<1>2. CASE ~ Unmoved(c)
  BY <1>2, Retries DEF Store
<1>. QED BY <1>1, <1>2

LEMMA CheckEligibleStep ==
  ASSUME IInv, NEW c \in Caller, CheckEligible(c)
  PROVE  IInv'
<1>1. CASE Return(c)
  BY <1>1, Returns DEF CheckEligible
<1>2. CASE ~ Return(c)
  <2>1. At(c, "eligible") /\ Goto(c, "latest") /\ "latest" \in Pc /\ UNCHANGED <<log, made, answers>>
    BY <1>2 DEF CheckEligible, Pc
  <2>2. PICK k \in Call :
          /\ call' = [call EXCEPT ![c] = k] /\ call'[c] = k
          /\ k.pc = "latest" /\ k.req = call[c].req /\ k.n = call[c].n
          /\ k.promo = call[c].promo /\ k.seen = call[c].seen /\ k.head = call[c].head
    BY <2>1, Goes, InvParts
  <2>3. CallOK(c)'
    BY <2>1, <2>2, InvParts DEF CallOK, AskOK, FoundOK, HeadOK, At, Claiming, Promoting
  <2>. QED BY <2>1, <2>2, <2>3, Step, InvParts
<1>. QED BY <1>1, <1>2
-----------------------------------------------------------------------------
LEMMA AdoptStep ==
  ASSUME IInv, NEW c \in Caller, NEW promo, promo = Promoted(call[c].req.task),
         promo # Nothing, Adopt(c, promo), At(c, "latest") \/ At(c, "reading"),
         UNCHANGED <<log, made, answers>>
  PROVE  IInv'
<1>1. CASE Return(c)
  BY <1>1, Returns
<1>2. CASE ~ Return(c)
  <2>. DEFINE k == [call[c] EXCEPT !.pc = "get", !.promo = promo, !.tries = 0]
  <2>1. call' = [call EXCEPT ![c] = k] /\ SameRequest(call[c].req, promo)
    BY <1>2 DEF Adopt
  <2>2. InLog(promo) /\ promo \in Promotion /\ promo.id = call[c].req.task
    <3>1. InLog(promo) /\ promo \in Entry /\ promo.kind = "frog_task_promotion"
          /\ promo.id = call[c].req.task
      BY LatestIn, InvParts DEF Promoted
    <3>. QED BY <3>1, EntryKinds
  <2>3. call[c] \in Call /\ 0 \in 0..MaxTries
    BY InvParts, FrogAssumption
  <2>4. /\ k \in Call /\ k.pc = "get" /\ k.req = call[c].req /\ k.n = call[c].n
        /\ k.promo = promo /\ k.seen = call[c].seen /\ k.head = call[c].head
    BY <2>2, <2>3 DEF Call, Pc
  <2>. HIDE DEF k
  <2>5. call'[c] = k
    BY <2>1, InvParts DEF TypeOK
  <2>6. AskOK(c)'
    BY <2>4, <2>5, InvParts DEF AskOK, At, Claiming, Promoting
  <2>7. FoundOK(c)'
    BY <2>1, <2>2, <2>4, <2>5 DEF FoundOK, Promoting, InLog, SameRequest
  <2>8. HeadOK(c)'
    BY <2>4, <2>5, InvParts DEF HeadOK
  <2>. QED BY <2>1, <2>4, <2>6, <2>7, <2>8, Step, InvParts DEF CallOK
<1>. QED BY <1>1, <1>2

LEMMA FindPromotionStep ==
  ASSUME IInv, NEW c \in Caller, FindPromotion(c)
  PROVE  IInv'
<1>1. CASE Promoted(call[c].req.task) # Nothing
  BY <1>1, AdoptStep DEF FindPromotion
<1>2. CASE Promoted(call[c].req.task) = Nothing
  <2>1. At(c, "latest") /\ Goto(c, "reading") /\ "reading" \in Pc /\ UNCHANGED <<log, made, answers>>
    BY <1>2 DEF FindPromotion, Pc
  <2>2. PICK k \in Call :
          /\ call' = [call EXCEPT ![c] = k] /\ call'[c] = k
          /\ k.pc = "reading" /\ k.req = call[c].req /\ k.n = call[c].n
          /\ k.promo = call[c].promo /\ k.seen = call[c].seen /\ k.head = call[c].head
    BY <2>1, Goes, InvParts
  <2>3. AskOK(c)'
    BY <2>1, <2>2, InvParts DEF AskOK, At, Claiming, Promoting
  <2>4. FoundOK(c)'
    BY <2>2 DEF FoundOK, Promoting
  <2>5. HeadOK(c)'
    BY <2>1, <2>2, InvParts DEF HeadOK
  <2>. QED BY <2>1, <2>2, <2>3, <2>4, <2>5, Step, InvParts DEF CallOK
<1>. QED BY <1>1, <1>2

LEMMA ReadPromotionsStep ==
  ASSUME IInv, NEW c \in Caller, ReadPromotions(c)
  PROVE  IInv'
<1>1. CASE Promoted(call[c].req.task) # Nothing
  BY <1>1, AdoptStep DEF ReadPromotions
<1>2. CASE Promoted(call[c].req.task) = Nothing
  <2>1. /\ At(c, "reading") /\ Compare(c, "reserve") /\ "reserve" \in Pc
        /\ UNCHANGED <<log, made, answers>>
    BY <1>2 DEF ReadPromotions, Pc
  <2>2. PICK k \in Call :
          /\ call' = [call EXCEPT ![c] = k] /\ call'[c] = k
          /\ k.pc = "reserve" /\ k.req = call[c].req /\ k.n = call[c].n
          /\ k.promo = call[c].promo /\ k.seen = call[c].seen /\ k.head = Len(log)
    BY <2>1, Compares, InvParts
  <2>3. ~ Has("frog_task_promotion", call[c].req.task)
    BY <1>2, LatestIs, InvParts DEF Promoted
  <2>4. AskOK(c)'
    BY <2>1, <2>2, InvParts DEF AskOK, At, Claiming, Promoting
  <2>5. FoundOK(c)'
    BY <2>2 DEF FoundOK, Promoting
  <2>6. HeadOK(c)'
    BY <2>1, <2>2, <2>3, InvParts, LogEntries DEF HeadOK, Has
  <2>. QED BY <2>1, <2>2, <2>4, <2>5, <2>6, Step, InvParts DEF CallOK
<1>. QED BY <1>1, <1>2

LEMMA Asks ==
  ASSUME IInv, NEW c \in Caller, call[c].pc \in Claiming
  PROVE  /\ call[c].req \in Requests /\ call[c].req.op = "claim"
         /\ call[c].req.task \in Task /\ call[c].req.session \in Session
         /\ call[c].req.scopes \in SUBSET Scope /\ call[c].req.scopes # {}
         /\ Chosen(c) \in Change /\ (Chosen(c) = call[c].n \/ Chosen(c) \in Named)
         /\ ClaimName(c) \in Change /\ (ClaimName(c) = call[c].n \/ ClaimName(c) \in Named)
<1>. DEFINE r == call[c].req
<1>1. r \in Requests /\ r.op = "claim" /\ (None \in {r.change, r.claim} => call[c].n # 0)
  BY InvParts DEF AskOK, Claiming, Promoting
<1>2. r \in Request
  BY <1>1, FrogAssumption
<1>3. /\ r.task \in Task /\ r.session \in Session /\ r.scopes \in SUBSET Scope /\ r.scopes # {}
      /\ r.change \in Named \cup {None} /\ r.claim \in Named \cup {None}
  <2>. HIDE DEF r
  <2>1. r \in [op : {"claim"}, task : Task, change : Named \cup {None}, claim : Named \cup {None},
                scopes : (SUBSET Scope) \ {{}}, session : Session]
    BY <1>1, <1>2 DEF Request
  <2>2. /\ r.task \in Task /\ r.session \in Session /\ r.scopes \in (SUBSET Scope) \ {{}}
        /\ r.change \in Named \cup {None} /\ r.claim \in Named \cup {None}
    BY <2>1
  <2>. QED BY <2>2
<1>4. call[c].n \in 0..MaxCalls
  BY InvParts DEF Call
<1>5. call[c].n # 0 => call[c].n \in Change
  BY <1>4, FrogAssumption DEF Change
<1>. HIDE DEF r
<1>6. Chosen(c) = IF r.change = None THEN call[c].n ELSE r.change
  BY DEF Chosen, r
<1>7. ClaimName(c) = IF r.claim = None THEN call[c].n ELSE r.claim
  BY DEF ClaimName, r
<1>8. Named \subseteq Change
  BY DEF Change
<1>. QED BY <1>1, <1>3, <1>5, <1>6, <1>7, <1>8 DEF r

(* A name a call gives is named, or is its own.                            *)
LEMMA NamesKnown ==
  ASSUME IInv, NEW c \in Caller, NEW x, x = call[c].n \/ x \in Named
  PROVE  \A i \in 1..MaxCalls : i = x => i \in Used
BY FrogAssumption DEF Used

LEMMA ReserveStep ==
  ASSUME IInv, NEW c \in Caller, Reserve(c)
  PROVE  IInv'
<1>1. CASE Unmoved(c)
  <2>. DEFINE e == Reservation(c)
              k == [call[c] EXCEPT !.pc = "get", !.promo = e, !.head = 0, !.tries = 0]
  <2>1. Append1(e) /\ call' = [call EXCEPT ![c] = k] /\ UNCHANGED <<made, answers>>
    BY <1>1 DEF Reserve
  <2>2. call[c].pc = "reserve" /\ call[c].pc \in Claiming
    BY DEF Reserve, At, Claiming
  <2>3. /\ e \in Promotion /\ e \in Entry /\ e.kind = "frog_task_promotion"
        /\ e.id = call[c].req.task /\ e.change = Chosen(c) /\ e.scopes = call[c].req.scopes
        /\ e.scopes # {}
    BY <2>2, Asks DEF Reservation, Promotion, Entry
  <2>. HIDE DEF e
  <2>4. call[c] \in Call /\ 0 \in 0..MaxTries
    BY InvParts, FrogAssumption
  <2>5. /\ k \in Call /\ k.pc = "get" /\ k.req = call[c].req /\ k.n = call[c].n
        /\ k.promo = e /\ k.head = 0
    BY <2>3, <2>4 DEF Call, Pc
  <2>. HIDE DEF k
  <2>6. call'[c] = k
    BY <2>1, InvParts DEF TypeOK
  <2>7. ~ Has("frog_task_promotion", call[c].req.task)
    BY <1>1, <2>2, InvParts DEF HeadOK
  <2>8. Appendable(e)
    BY <2>3, <2>7 DEF Appendable, Backed, Has
  <2>9. Known(e)
    BY <2>2, <2>3, Asks, NamesKnown DEF Known, Mentions
  <2>10. \A p : p = e => \E i \in DOMAIN log' : log'[i] = p
    BY <2>1, <2>3, LogGrows, InvParts DEF InLog
  <2>11. AskOK(c)'
    BY <2>2, <2>5, <2>6, InvParts DEF AskOK, Claiming, Promoting
  <2>12. FoundOK(c)'
    BY <2>3, <2>5, <2>6, <2>10 DEF FoundOK, Promoting, InLog
  <2>13. Len(log') \in Nat
    BY <2>1, <2>3, Appended, LogEntries, InvParts
  <2>14. HeadOK(c)'
    BY <2>5, <2>6, <2>13 DEF HeadOK
  <2>. QED BY <2>1, <2>3, <2>5, <2>8, <2>9, <2>11, <2>12, <2>14, Step, InvParts DEF CallOK
<1>2. CASE ~ Unmoved(c)
  BY <1>2, Retries DEF Reserve
<1>. QED BY <1>1, <1>2
-----------------------------------------------------------------------------
(* Where a call is in a promotion it has one.                              *)
LEMMA Promotes ==
  ASSUME IInv, NEW c \in Caller, call[c].pc \in Promoting
  PROVE  /\ call[c].pc \in Claiming
         /\ call[c].promo \in Promotion /\ InLog(call[c].promo)
         /\ call[c].promo.id = call[c].req.task /\ call[c].promo.scopes = call[c].req.scopes
         /\ call[c].promo.kind = "frog_task_promotion" /\ call[c].promo.change \in Change
         /\ CoversPromotion(call[c].promo.change, call[c].promo.scopes)
         /\ \A i \in 1..MaxCalls : i = call[c].promo.change => i \in Used
<1>1. call[c].pc \in Claiming /\ call[c].promo \in Promotion /\ InLog(call[c].promo)
      /\ call[c].promo.id = call[c].req.task /\ call[c].promo.scopes = call[c].req.scopes
  BY InvParts DEF FoundOK, Claiming
<1>2. call[c].promo.kind = "frog_task_promotion" /\ call[c].promo.change \in Change
  BY <1>1 DEF Promotion
<1>. QED BY <1>1, <1>2 DEF InLog, CoversPromotion, Used, Mentions

(* The Change Set is there, and has been read or appended.                 *)
LEMMA CreatedStep ==
  ASSUME IInv, NEW c \in Caller, At(c, "get") \/ At(c, "plan"), Created(c),
         UNCHANGED <<made, answers>>,
         \/ UNCHANGED log /\ Has("changeset", call[c].promo.change)
         \/ \E e \in Entry : /\ Append1(e) /\ Appendable(e) /\ Known(e)
                             /\ e.kind = "changeset" /\ e.id = call[c].promo.change
  PROVE  IInv'
<1>. DEFINE pc == IF call[c].promo.done THEN "claims" ELSE "complete"
<1>1. pc \in Pc /\ Goto(c, pc) /\ call[c].pc \in Promoting
  BY DEF Created, Pc, At, Promoting
<1>2. PICK k \in Call :
        /\ call' = [call EXCEPT ![c] = k] /\ call'[c] = k
        /\ k.pc = pc /\ k.req = call[c].req /\ k.n = call[c].n
        /\ k.promo = call[c].promo /\ k.seen = call[c].seen /\ k.head = call[c].head
  BY <1>1, Goes, InvParts
<1>3. /\ call[c].promo \in Promotion /\ InLog(call[c].promo)
      /\ call[c].promo.id = call[c].req.task /\ call[c].promo.scopes = call[c].req.scopes
  BY <1>1, Promotes
<1>4. \A x : InLog(x) => InLog(x)'
  BY LogGrows, InvParts DEF InLog
<1>5. \A x : InLog(x) => \E i \in DOMAIN log' : log'[i] = x
  BY <1>4 DEF InLog
<1>6. \A x : x = call[c].promo.change => Has("changeset", x)'
  BY LogGrows, InvParts DEF Has
<1>7. \A x : x = call[c].promo.change =>
        \E i \in DOMAIN log' : log'[i].kind = "changeset" /\ log'[i].id = x
  BY <1>6 DEF Has
<1>8. call[c].promo.done => [call[c].promo EXCEPT !.done = TRUE] = call[c].promo
  BY <1>3 DEF Promotion
<1>9. AskOK(c)'
  BY <1>1, <1>2, InvParts DEF AskOK, Claiming, Promoting
<1>10. FoundOK(c)'
  BY <1>2, <1>3, <1>5, <1>7, <1>8 DEF FoundOK, Promoting, InLog, Has
<1>11. HeadOK(c)'
  <2>1. call[c].head <= Len(log) /\ Len(log) \in Nat /\ call[c].head \in Nat
    BY InvParts, LogEntries DEF HeadOK, Call
  <2>2. Len(log') = Len(log) \/ Len(log') = Len(log) + 1
    BY InvParts, Appended
  <2>. QED BY <1>2, <2>1, <2>2 DEF HeadOK
<1>. QED BY <1>2, <1>9, <1>10, <1>11, Step, InvParts DEF CallOK

LEMMA GetChangeSetStep ==
  ASSUME IInv, NEW c \in Caller, GetChangeSet(c)
  PROVE  IInv'
<1>. DEFINE found == Latest("changeset", call[c].promo.change)
<1>1. CASE found = Nothing
  <2>1. At(c, "get") /\ Goto(c, "create") /\ "create" \in Pc /\ UNCHANGED <<log, made, answers>>
    BY <1>1 DEF GetChangeSet, Pc
  <2>2. PICK k \in Call :
          /\ call' = [call EXCEPT ![c] = k] /\ call'[c] = k
          /\ k.pc = "create" /\ k.req = call[c].req /\ k.n = call[c].n
          /\ k.promo = call[c].promo /\ k.seen = call[c].seen /\ k.head = call[c].head
    BY <2>1, Goes, InvParts
  <2>3. AskOK(c)'
    BY <2>1, <2>2, InvParts DEF AskOK, At, Claiming, Promoting
  <2>4. FoundOK(c)'
    BY <2>1, <2>2, InvParts DEF FoundOK, At, Promoting, InLog
  <2>5. HeadOK(c)'
    BY <2>1, <2>2, InvParts DEF HeadOK
  <2>. QED BY <2>1, <2>2, <2>3, <2>4, <2>5, Step, InvParts DEF CallOK
<1>2. CASE found # Nothing /\ found.scopes = call[c].promo.scopes
  <2>1. At(c, "get") /\ Created(c) /\ UNCHANGED <<log, made, answers>>
    BY <1>2 DEF GetChangeSet
  <2>2. Has("changeset", call[c].promo.change)
    BY <1>2, LatestIs, InvParts
  <2>. QED BY <2>1, <2>2, CreatedStep
<1>3. CASE found # Nothing /\ found.scopes # call[c].promo.scopes
  BY <1>3, Returns DEF GetChangeSet
<1>. QED BY <1>1, <1>2, <1>3

LEMMA CreateChangeSetStep ==
  ASSUME IInv, NEW c \in Caller, CreateChangeSet(c)
  PROVE  IInv'
<1>1. CASE Return(c)
  BY <1>1, Returns DEF CreateChangeSet
<1>2. CASE ~ Return(c)
  <2>1. At(c, "create") /\ Goto(c, "plan") /\ "plan" \in Pc /\ UNCHANGED <<log, made, answers>>
    BY <1>2 DEF CreateChangeSet, Pc
  <2>2. PICK k \in Call :
          /\ call' = [call EXCEPT ![c] = k] /\ call'[c] = k
          /\ k.pc = "plan" /\ k.req = call[c].req /\ k.n = call[c].n
          /\ k.promo = call[c].promo /\ k.seen = call[c].seen /\ k.head = call[c].head
    BY <2>1, Goes, InvParts
  <2>3. AskOK(c)'
    BY <2>1, <2>2, InvParts DEF AskOK, At, Claiming, Promoting
  <2>4. FoundOK(c)'
    BY <2>1, <2>2, InvParts DEF FoundOK, At, Promoting, InLog
  <2>5. HeadOK(c)'
    BY <2>1, <2>2, InvParts DEF HeadOK
  <2>. QED BY <2>1, <2>2, <2>3, <2>4, <2>5, Step, InvParts DEF CallOK
<1>. QED BY <1>1, <1>2

LEMMA PlanChangeSetStep ==
  ASSUME IInv, NEW c \in Caller, PlanChangeSet(c)
  PROVE  IInv'
<1>. DEFINE e == [kind |-> "changeset", id |-> call[c].promo.change,
                  scopes |-> call[c].promo.scopes]
<1>1. At(c, "plan") /\ Append1(e) /\ Created(c) /\ UNCHANGED <<made, answers>>
  BY DEF PlanChangeSet
<1>2. call[c].pc \in Promoting
  BY <1>1 DEF At, Promoting
<1>3. /\ call[c].promo \in Promotion /\ call[c].promo.change \in Change
      /\ CoversPromotion(call[c].promo.change, call[c].promo.scopes)
      /\ \A i \in 1..MaxCalls : i = call[c].promo.change => i \in Used
  BY <1>2, Promotes
<1>4. e \in Entry /\ e.kind = "changeset" /\ e.id = call[c].promo.change
      /\ e.scopes = call[c].promo.scopes
  BY <1>3 DEF Entry, ChangeSet, Promotion
<1>. HIDE DEF e
<1>5. Appendable(e) /\ Known(e)
  BY <1>3, <1>4 DEF Appendable, Backed, Known, Mentions
<1>. QED BY <1>1, <1>4, <1>5, CreatedStep

LEMMA CompleteStep ==
  ASSUME IInv, NEW c \in Caller, Complete(c)
  PROVE  IInv'
<1>. DEFINE e == [call[c].promo EXCEPT !.done = TRUE]
<1>1. At(c, "complete") /\ Append1(e) /\ Goto(c, "claims") /\ "claims" \in Pc
      /\ UNCHANGED <<made, answers>>
  BY DEF Complete, Pc
<1>2. call[c].pc \in Promoting
  BY <1>1 DEF At, Promoting
<1>3. /\ call[c].promo \in Promotion /\ InLog(call[c].promo)
      /\ call[c].promo.id = call[c].req.task /\ call[c].promo.scopes = call[c].req.scopes
      /\ call[c].promo.kind = "frog_task_promotion"
      /\ \A i \in 1..MaxCalls : i = call[c].promo.change => i \in Used
  BY <1>2, Promotes
<1>4. call[c].req.scopes # {}
  BY <1>2, Asks, Promotes
<1>5. /\ e \in Promotion /\ e \in Entry /\ e.kind = "frog_task_promotion"
      /\ e.id = call[c].promo.id /\ e.change = call[c].promo.change
      /\ e.scopes = call[c].promo.scopes /\ e.done
  BY <1>3 DEF Promotion, Entry
<1>6. PICK k \in Call :
        /\ call' = [call EXCEPT ![c] = k] /\ call'[c] = k
        /\ k.pc = "claims" /\ k.req = call[c].req /\ k.n = call[c].n
        /\ k.promo = call[c].promo /\ k.seen = call[c].seen /\ k.head = call[c].head
  BY <1>1, Goes, InvParts
<1>7. Has("changeset", call[c].promo.change)
  BY <1>1, InvParts DEF FoundOK, At, Promoting
<1>8. /\ \A x : InLog(x) \/ x = e => \E i \in DOMAIN log' : log'[i] = x
      /\ \A x : Has("changeset", x) =>
           \E i \in DOMAIN log' : log'[i].kind = "changeset" /\ log'[i].id = x
  <2>. HIDE DEF e
  <2>1. (\A x : InLog(x) \/ x = e => InLog(x)') /\ \A kind, x : Has(kind, x) => Has(kind, x)'
    BY <1>1, <1>5, LogGrows, InvParts
  <2>. QED BY <2>1 DEF InLog, Has
<1>9. Appendable(e) /\ Known(e)
  <2>. HIDE DEF e
  <2>1. ASSUME NEW i \in DOMAIN log, log[i].kind = e.kind, log[i].id = e.id
        PROVE  e.change = log[i].change /\ e.scopes = log[i].scopes
    <3>1. PICK j \in DOMAIN log : log[j] = call[c].promo
      BY <1>3 DEF InLog
    <3>2. SameEntity(i, j)
      BY <1>3, <1>5, <2>1, <3>1 DEF SameEntity
    <3>. QED BY <1>3, <1>5, <2>1, <3>1, <3>2, RecordsAgree, InvParts
  <2>. QED BY <1>3, <1>4, <1>5, <2>1 DEF Appendable, Backed, Known, Mentions
<1>10. AskOK(c)'
  BY <1>1, <1>6, InvParts DEF AskOK, At, Claiming, Promoting
<1>11. FoundOK(c)'
  <2>1. /\ \E i \in DOMAIN log' : log'[i] = [call[c].promo EXCEPT !.done = TRUE]
        /\ \E i \in DOMAIN log' : log'[i] = call[c].promo
        /\ \E i \in DOMAIN log' : log'[i].kind = "changeset" /\ log'[i].id = call[c].promo.change
    BY <1>3, <1>7, <1>8
  <2>. QED BY <1>3, <1>6, <2>1 DEF FoundOK, Promoting, InLog, Has
<1>12. HeadOK(c)'
  <2>. HIDE DEF e
  <2>1. call[c].head <= Len(log) /\ Len(log) \in Nat /\ call[c].head \in Nat
    BY InvParts, LogEntries DEF HeadOK, Call
  <2>2. Len(log') = Len(log) + 1
    BY <1>1, <1>5, InvParts, Appended
  <2>. QED BY <1>6, <2>1, <2>2 DEF HeadOK
<1>. HIDE DEF e
<1>. QED BY <1>1, <1>5, <1>6, <1>9, <1>10, <1>11, <1>12, Step, InvParts DEF CallOK
-----------------------------------------------------------------------------
(* What the caller is told is in the log.                                  *)
LEMMA TellStep ==
  ASSUME IInv, NEW c \in Caller, At(c, "claims") \/ At(c, "acquire"), NEW x \in Change,
         Tell(c, x), made' = made,
         \/ UNCHANGED log
         \/ \E e \in Entry : Append1(e) /\ Appendable(e) /\ Known(e),
         \E i \in DOMAIN log' : /\ log'[i].kind = "claim" /\ log'[i].id = x
                                /\ log'[i].change = call[c].promo.change
                                /\ log'[i].session = call[c].req.session
  PROVE  IInv'
<1>. DEFINE promo == call[c].promo
            a == [task |-> call[c].req.task, change |-> promo.change, claim |-> x,
                  scopes |-> call[c].req.scopes, session |-> call[c].req.session]
<1>1. call[c].pc \in Promoting /\ call[c].pc \notin {"get", "create", "plan", "complete"}
  BY DEF At, Promoting
<1>2. /\ promo \in Promotion /\ promo.id = call[c].req.task /\ promo.scopes = call[c].req.scopes
      /\ promo.change \in Change /\ call[c].pc \in Claiming
  BY <1>1, Promotes
<1>3. InLog([promo EXCEPT !.done = TRUE])
  BY <1>1, InvParts DEF FoundOK
<1>4. /\ a \in Answer /\ a.task = call[c].req.task /\ a.change = promo.change /\ a.claim = x
      /\ a.scopes = call[c].req.scopes /\ a.session = call[c].req.session
  BY <1>2, Asks DEF Answer
<1>5. answers' = answers \cup {a} /\ Return(c)
  BY DEF Tell
<1>6. \A y : InLog(y) => \E i \in DOMAIN log' : log'[i] = y
  <2>1. \A y : InLog(y) => InLog(y)'
    BY LogGrows, InvParts DEF InLog
  <2>. QED BY <2>1 DEF InLog
<1>7. \E i \in DOMAIN log' : /\ log'[i].kind = "frog_task_promotion" /\ log'[i].id = promo.id
                             /\ log'[i].change = promo.change /\ log'[i].scopes = promo.scopes
                             /\ log'[i].done
  <2>1. PICK i \in DOMAIN log' : log'[i] = [promo EXCEPT !.done = TRUE]
    BY <1>3, <1>6
  <2>. QED BY <1>2, <2>1 DEF Promotion
<1>. HIDE DEF a, promo
<1>8. \A i \in DOMAIN log : \E j \in DOMAIN log' : log'[j] = log[i]
  BY <1>6 DEF InLog
<1>9. ASSUME NEW b \in answers'
      PROVE  /\ \E i \in DOMAIN log' :
                  /\ log'[i].kind = "frog_task_promotion" /\ log'[i].id = b.task
                  /\ log'[i].change = b.change /\ log'[i].scopes = b.scopes
                  /\ log'[i].done
             /\ \E i \in DOMAIN log' : /\ log'[i].kind = "claim" /\ log'[i].id = b.claim
                                       /\ log'[i].change = b.change /\ log'[i].session = b.session
  <2>1. CASE b = a
    <3>1. \E i \in DOMAIN log' : /\ log'[i].kind = "claim" /\ log'[i].id = a.claim
                                 /\ log'[i].change = a.change /\ log'[i].session = a.session
      BY <1>4 DEF promo
    <3>. QED BY <1>2, <1>4, <1>7, <2>1, <3>1
  <2>2. CASE b \in answers
    <3>1. PICK i \in DOMAIN log :
            /\ log[i].kind = "frog_task_promotion" /\ log[i].id = b.task
            /\ log[i].change = b.change /\ log[i].scopes = b.scopes /\ log[i].done
      BY <2>2 DEF IInv, AnswersOK
    <3>2. PICK j \in DOMAIN log : /\ log[j].kind = "claim" /\ log[j].id = b.claim
                                  /\ log[j].change = b.change /\ log[j].session = b.session
      BY <2>2 DEF IInv, AnswersOK
    <3>. QED BY <1>8, <3>1, <3>2
  <2>. QED BY <1>5, <2>1, <2>2
<1>10. AnswersOK'
  BY <1>9 DEF AnswersOK
<1>11. call' = [call EXCEPT ![c] = Idle] /\ call'[c] = Idle
  BY <1>5, InvParts DEF Return, TypeOK
<1>12. log' \in Seq(Entry)
  BY InvParts, Appended DEF TypeOK
<1>13. answers' \subseteq Answer
  BY <1>4, <1>5, InvParts
<1>14. CallOK(c)'
  BY <1>11, <1>12, IdleOK
<1>. QED BY <1>10, <1>11, <1>13, <1>14, IdleType, Step

LEMMA FindClaimStep ==
  ASSUME IInv, NEW c \in Caller, FindClaim(c)
  PROVE  IInv'
<1>. DEFINE name == call[c].req.claim
            own == IF name = None THEN Mine(c) ELSE {k \in Claims : k.id = name}
<1>1. At(c, "claims") /\ UNCHANGED <<log, made>>
  BY DEF FindClaim
<1>2. CASE own = {}
  <2>1. Goto(c, "scopes") /\ UNCHANGED answers /\ "scopes" \in Pc
    BY <1>2 DEF FindClaim, Pc
  <2>2. PICK k \in Call :
          /\ call' = [call EXCEPT ![c] = k] /\ call'[c] = k
          /\ k.pc = "scopes" /\ k.req = call[c].req /\ k.n = call[c].n
          /\ k.promo = call[c].promo /\ k.seen = call[c].seen /\ k.head = call[c].head
    BY <2>1, Goes, InvParts
  <2>3. AskOK(c)'
    BY <1>1, <2>2, InvParts DEF AskOK, At, Claiming, Promoting
  <2>4. FoundOK(c)'
    BY <1>1, <2>2, InvParts DEF FoundOK, At, Promoting, InLog, Has
  <2>5. HeadOK(c)'
    BY <1>1, <2>2, InvParts DEF HeadOK
  <2>. QED BY <1>1, <2>1, <2>2, <2>3, <2>4, <2>5, Step, InvParts DEF CallOK
<1>3. CASE own # {} /\ own \subseteq Mine(c) /\ Cardinality(own) = 1
  <2>1. PICK k \in own : Tell(c, k.id)
    BY <1>3 DEF FindClaim
  <2>2. k \in Claims /\ k.change = call[c].promo.change /\ k.session = call[c].req.session
    BY <1>3, <2>1 DEF Mine
  <2>3. PICK i \in DOMAIN log : k = log[i] /\ log[i].kind = "claim"
    BY <2>2, ClaimsAre, InvParts
  <2>4. k.id \in Change
    BY <2>3, LogEntries, EntryKinds, InvParts DEF Claim
  <2>. QED BY <1>1, <2>1, <2>2, <2>3, <2>4, TellStep
<1>4. CASE own # {} /\ ~ (own \subseteq Mine(c) /\ Cardinality(own) = 1)
  <2>1. Return(c) /\ UNCHANGED answers
    BY <1>4 DEF FindClaim
  <2>. QED BY <1>1, <2>1, Returns
<1>. QED BY <1>2, <1>3, <1>4

LEMMA ReadScopesStep ==
  ASSUME IInv, NEW c \in Caller, ReadScopes(c)
  PROVE  IInv'
<1>. DEFINE found == Latest("changeset", call[c].promo.change)
            k == [call[c] EXCEPT !.pc = "acquiring", !.seen = found]
<1>1. At(c, "scopes") /\ call' = [call EXCEPT ![c] = k] /\ UNCHANGED <<log, made, answers>>
  BY DEF ReadScopes
<1>2. Has("changeset", call[c].promo.change) /\ InLog([call[c].promo EXCEPT !.done = TRUE])
  BY <1>1, InvParts DEF FoundOK, At, Promoting
<1>3. InLog(found) /\ found \in ChangeSet /\ found.id = call[c].promo.change
  BY <1>2, LatestIs, LatestIn, EntryKinds, InvParts
<1>. HIDE DEF found
<1>4. /\ k \in Call /\ k.pc = "acquiring" /\ k.req = call[c].req /\ k.n = call[c].n
      /\ k.promo = call[c].promo /\ k.seen = found /\ k.head = call[c].head
  BY <1>3, InvParts DEF Call, Pc
<1>. HIDE DEF k
<1>5. call'[c] = k
  BY <1>1, InvParts DEF TypeOK
<1>6. AskOK(c)'
  BY <1>1, <1>4, <1>5, InvParts DEF AskOK, At, Claiming, Promoting
<1>7. /\ call[c].promo \in Promotion /\ InLog(call[c].promo)
      /\ call[c].promo.id = call[c].req.task /\ call[c].promo.scopes = call[c].req.scopes
  BY <1>1, Promotes DEF At, Promoting
<1>8. FoundOK(c)'
  BY <1>1, <1>2, <1>3, <1>4, <1>5, <1>7 DEF FoundOK, InLog, Has
<1>9. HeadOK(c)'
  BY <1>1, <1>4, <1>5, InvParts DEF HeadOK
<1>. QED BY <1>1, <1>4, <1>6, <1>8, <1>9, Step, InvParts DEF CallOK

LEMMA ReadClaimsStep ==
  ASSUME IInv, NEW c \in Caller, ReadClaims(c)
  PROVE  IInv'
<1>1. CASE Return(c)
  BY <1>1, Returns DEF ReadClaims
<1>2. CASE ~ Return(c)
  <2>1. /\ At(c, "acquiring") /\ Compare(c, "acquire") /\ "acquire" \in Pc
        /\ UNCHANGED <<log, made, answers>>
        /\ \A l \in Claims : l.id # ClaimName(c) /\ ~ Competes(l, call[c].seen.scopes)
    BY <1>2 DEF ReadClaims, Pc
  <2>2. PICK k \in Call :
          /\ call' = [call EXCEPT ![c] = k] /\ call'[c] = k
          /\ k.pc = "acquire" /\ k.req = call[c].req /\ k.n = call[c].n
          /\ k.promo = call[c].promo /\ k.seen = call[c].seen /\ k.head = Len(log)
    BY <2>1, Compares, InvParts
  <2>3. AskOK(c)'
    BY <2>1, <2>2, InvParts DEF AskOK, At, Claiming, Promoting
  <2>4. FoundOK(c)'
    BY <2>1, <2>2, InvParts DEF FoundOK, At, Promoting, InLog, Has
  <2>5. ClaimName(c)' = ClaimName(c)
    BY <2>2 DEF ClaimName
  <2>6. Claims' = Claims /\ Len(log') <= Len(log)
    BY <2>1, LogEntries, InvParts DEF Claims
  <2>7. HeadOK(c)'
    BY <2>1, <2>2, <2>5, <2>6, InvParts DEF HeadOK, Competes
  <2>. QED BY <2>1, <2>2, <2>3, <2>4, <2>7, Step, InvParts DEF CallOK
<1>. QED BY <1>1, <1>2
-----------------------------------------------------------------------------
LEMMA AcquireStep ==
  ASSUME IInv, NEW c \in Caller, Acquire(c)
  PROVE  IInv'
<1>1. CASE Unmoved(c)
  <2>. DEFINE e == [kind |-> "claim", id |-> ClaimName(c),
                    change |-> call[c].promo.change, scopes |-> call[c].seen.scopes,
                    session |-> call[c].req.session, open |-> TRUE]
  <2>1. At(c, "acquire") /\ Append1(e) /\ Tell(c, ClaimName(c)) /\ made' = made
    BY <1>1 DEF Acquire
  <2>2. call[c].pc \in Promoting /\ call[c].promo.change \in Change
        /\ (\A i \in 1..MaxCalls : i = call[c].promo.change => i \in Used)
        /\ call[c].pc \in Claiming
    BY <2>1, Promotes DEF At, Promoting
  <2>3. /\ ClaimName(c) \in Change /\ call[c].req.session \in Session
        /\ \A i \in 1..MaxCalls : i = ClaimName(c) => i \in Used
    BY <2>2, Asks, NamesKnown
  <2>4. call[c].seen \in ChangeSet /\ InLog(call[c].seen) /\ call[c].seen.id = call[c].promo.change
    BY <2>1, InvParts DEF FoundOK, At
  <2>5. call[c].seen.kind = "changeset" /\ call[c].seen.scopes \in SUBSET Scope
    BY <2>4 DEF ChangeSet
  <2>6. CoversPromotion(call[c].promo.change, call[c].seen.scopes)
    BY <2>4, <2>5, InvParts DEF InLog, LogOK, Backed
  <2>7. \A l \in Claims : l.id # ClaimName(c) /\ ~ Competes(l, call[c].seen.scopes)
    BY <1>1, <2>1, InvParts DEF HeadOK, At
  <2>8. ~ Has("claim", ClaimName(c))
    BY <2>7, ClaimsCover, InvParts
  <2>9. /\ e \in Entry /\ e.kind = "claim" /\ e.id = ClaimName(c)
        /\ e.change = call[c].promo.change /\ e.scopes = call[c].seen.scopes
        /\ e.session = call[c].req.session /\ e.open
    BY <2>2, <2>3, <2>5 DEF Entry, Claim
  <2>. HIDE DEF e
  <2>10. Appendable(e)
    BY <2>6, <2>7, <2>8, <2>9 DEF Appendable, Backed, Has
  <2>11. Known(e)
    BY <2>2, <2>3, <2>9 DEF Known, Mentions
  <2>12. \E i \in DOMAIN log' : log'[i] = e
    BY <2>1, <2>9, LogGrows, InvParts DEF InLog
  <2>. QED BY <2>1, <2>3, <2>9, <2>10, <2>11, <2>12, TellStep
<1>2. CASE ~ Unmoved(c)
  BY <1>2, Retries DEF Acquire
<1>. QED BY <1>1, <1>2

LEMMA LoadChangeSetStep ==
  ASSUME IInv, NEW c \in Caller, LoadChangeSet(c)
  PROVE  IInv'
<1>1. CASE Return(c)
  BY <1>1, Returns DEF LoadChangeSet
<1>2. CASE ~ Return(c)
  <2>. DEFINE found == Latest("changeset", call[c].req.change)
              k == [call[c] EXCEPT !.pc = "store", !.seen = found]
  <2>1. /\ At(c, "load") /\ call' = [call EXCEPT ![c] = k] /\ found # Nothing
        /\ UNCHANGED <<log, made, answers>>
    BY <1>2 DEF LoadChangeSet
  <2>2. InLog(found) /\ found \in ChangeSet
    BY <2>1, LatestIn, EntryKinds, InvParts
  <2>. HIDE DEF found
  <2>3. /\ k \in Call /\ k.pc = "store" /\ k.req = call[c].req /\ k.n = call[c].n
        /\ k.promo = call[c].promo /\ k.seen = found /\ k.head = call[c].head
    BY <2>2, InvParts DEF Call, Pc
  <2>. HIDE DEF k
  <2>4. call'[c] = k
    BY <2>1, InvParts DEF TypeOK
  <2>5. AskOK(c)'
    BY <2>1, <2>3, <2>4, InvParts DEF AskOK, At, Claiming, Promoting
  <2>6. FoundOK(c)'
    BY <2>1, <2>2, <2>3, <2>4 DEF FoundOK, Promoting, InLog
  <2>7. HeadOK(c)'
    BY <2>1, <2>3, <2>4, InvParts DEF HeadOK
  <2>. QED BY <2>1, <2>3, <2>5, <2>6, <2>7, Step, InvParts DEF CallOK
<1>. QED BY <1>1, <1>2

LEMMA AmendRequest ==
  ASSUME NEW r \in Request, r.op = "amend"
  PROVE  r.added \in SUBSET Scope
<1>1. r \in [op : {"amend"}, change : Named, added : SUBSET Scope]
  BY DEF Request
<1>. QED BY <1>1

LEMMA StoreChangeSetStep ==
  ASSUME IInv, NEW c \in Caller, StoreChangeSet(c)
  PROVE  IInv'
<1>. DEFINE old == call[c].seen
            e == [old EXCEPT !.scopes = @ \cup call[c].req.added]
<1>1. At(c, "store") /\ Append1(e) /\ Return(c) /\ UNCHANGED <<made, answers>>
  BY DEF StoreChangeSet
<1>2. old \in ChangeSet /\ InLog(old)
  BY <1>1, InvParts DEF FoundOK, At
<1>3. call[c].req.added \in SUBSET Scope
  BY <1>1, AmendRequest, InvParts, FrogAssumption DEF AskOK, At
<1>. HIDE DEF old
<1>4. /\ e \in ChangeSet /\ e \in Entry /\ e.kind = "changeset" /\ e.id = old.id
      /\ old.kind = "changeset" /\ old.scopes \subseteq e.scopes
  BY <1>2, <1>3 DEF ChangeSet, Entry
<1>. HIDE DEF e
<1>5. CoversPromotion(old.id, old.scopes)
  BY <1>2, <1>4, InvParts DEF InLog, LogOK, Backed
<1>6. Appendable(e)
  BY <1>4, <1>5 DEF Appendable, Backed, CoversPromotion
<1>7. Known(e)
  BY <1>2, <1>4 DEF Known, Mentions, InLog, Used
<1>. QED BY <1>1, <1>4, <1>6, <1>7, Returns

LEMMA ReadClaimStep ==
  ASSUME IInv, NEW c \in Caller, ReadClaim(c)
  PROVE  IInv'
<1>1. CASE Return(c)
  BY <1>1, Returns DEF ReadClaim
<1>2. CASE ~ Return(c)
  <2>1. /\ At(c, "releasing") /\ Compare(c, "release") /\ "release" \in Pc
        /\ UNCHANGED <<log, made, answers>> /\ Latest("claim", call[c].req.claim) # Nothing
    BY <1>2 DEF ReadClaim, Pc
  <2>2. PICK k \in Call :
          /\ call' = [call EXCEPT ![c] = k] /\ call'[c] = k
          /\ k.pc = "release" /\ k.req = call[c].req /\ k.n = call[c].n
          /\ k.promo = call[c].promo /\ k.seen = call[c].seen /\ k.head = Len(log)
    BY <2>1, Compares, InvParts
  <2>3. Has("claim", call[c].req.claim)
    BY <2>1, LatestIs, InvParts
  <2>4. AskOK(c)'
    BY <2>1, <2>2, InvParts DEF AskOK, At, Claiming, Promoting
  <2>5. FoundOK(c)'
    BY <2>2 DEF FoundOK, Promoting
  <2>6. HeadOK(c)'
    BY <2>1, <2>2, <2>3, InvParts, LogEntries DEF HeadOK, Has
  <2>. QED BY <2>1, <2>2, <2>4, <2>5, <2>6, Step, InvParts DEF CallOK
<1>. QED BY <1>1, <1>2

LEMMA ReleaseStep ==
  ASSUME IInv, NEW c \in Caller, Release(c)
  PROVE  IInv'
<1>1. CASE Unmoved(c)
  <2>. DEFINE old == Latest("claim", call[c].req.claim)
              e == [old EXCEPT !.open = FALSE]
  <2>1. At(c, "release") /\ Append1(e) /\ Return(c) /\ UNCHANGED <<made, answers>>
    BY <1>1 DEF Release
  <2>2. Has("claim", call[c].req.claim)
    BY <1>1, <2>1, InvParts DEF HeadOK, At
  <2>3. PICK j \in DOMAIN log : old = log[j] /\ log[j].kind = "claim"
    BY <2>2, LatestIs, InvParts
  <2>4. old \in Claim
    BY <2>3, LogEntries, EntryKinds, InvParts
  <2>. HIDE DEF old
  <2>5. /\ e \in Claim /\ e \in Entry /\ e.kind = "claim" /\ e.id = old.id /\ ~ e.open
        /\ e.change = old.change /\ e.scopes = old.scopes /\ e.session = old.session
    BY <2>4 DEF Claim, Entry
  <2>. HIDE DEF e
  <2>6. ASSUME NEW i \in DOMAIN log, log[i].kind = e.kind, log[i].id = e.id
        PROVE  e.change = log[i].change /\ e.scopes = log[i].scopes /\ e.session = log[i].session
    <3>1. SameEntity(i, j)
      BY <2>3, <2>5, <2>6 DEF SameEntity
    <3>. QED BY <2>3, <2>5, <2>6, <3>1, RecordsAgree, InvParts
  <2>7. CoversPromotion(e.change, e.scopes)
    BY <2>3, <2>5, InvParts DEF LogOK, Backed
  <2>8. Appendable(e)
    BY <2>5, <2>6, <2>7 DEF Appendable, Backed
  <2>9. Known(e)
    BY <2>3, <2>5 DEF Known, Mentions, Used
  <2>. QED BY <2>1, <2>5, <2>8, <2>9, Returns
<1>2. CASE ~ Unmoved(c)
  BY <1>2, Retries DEF Release
<1>. QED BY <1>1, <1>2
-----------------------------------------------------------------------------
(* There is an id left for a call to generate, for each in use belongs to  *)
(* one of the calls made.                                                  *)
LEMMA FreshIs ==
  ASSUME IInv, made < MaxCalls
  PROVE  Fresh \in 1..MaxCalls
<1>1. IsFiniteSet(1..MaxCalls) /\ Cardinality(1..MaxCalls) = MaxCalls /\ MaxCalls \in Nat
  <2>1. MaxCalls \in Nat
    BY FrogAssumption
  <2>2. IsFiniteSet(1..MaxCalls)
        /\ Cardinality(1..MaxCalls) = IF 1 > MaxCalls THEN 0 ELSE MaxCalls - 1 + 1
    BY <2>1, FS_Interval
  <2>. QED BY <2>1, <2>2
<1>2. Used # 1..MaxCalls
  <2>1. made \in Nat /\ Cardinality(Used) <= made
    BY FrogAssumption DEF IInv, TypeOK
  <2>. QED BY <1>1, <2>1
<1>3. PICK i \in 1..MaxCalls : i \notin Used
  BY <1>2 DEF Used
<1>4. \A j \in DOMAIN log : ~ Mentions(log[j], i)
  BY <1>3 DEF Used
<1>5. \A e \in ToSet(log) : /\ e.kind \in {"changeset", "claim"} => i # e.id
                            /\ e.kind \in {"frog_task_promotion", "claim"} => i # e.change
  BY <1>4 DEF ToSet, Mentions
<1>6. \A c \in Caller : i # call[c].n
  BY <1>3 DEF Used
<1>. QED BY <1>5, <1>6 DEF Fresh

LEMMA Ops ==
  ASSUME NEW r \in Request
  PROVE  r.op \in {"import", "bundle", "claim", "amend", "release"}
BY DEF Request

LEMMA BeginStep ==
  ASSUME IInv, NEW c \in Caller, Begin(c)
  PROVE  IInv'
<1>1. PICK r \in Requests :
        call' = [call EXCEPT ![c] = [Idle EXCEPT
          !.req = r,
          !.n = IF r.op = "claim" /\ None \in {r.change, r.claim} THEN Fresh ELSE 0,
          !.pc = CASE r.op \in {"import", "bundle"} -> "snapshot"
                   [] r.op = "claim" -> "eligible"
                   [] r.op = "amend" -> "load"
                   [] OTHER -> "releasing"]]
  BY DEF Begin
<1>2. r \in Request /\ r.op \in {"import", "bundle", "claim", "amend", "release"}
  BY Ops, FrogAssumption
<1>3. made < MaxCalls /\ made' = made + 1 /\ UNCHANGED <<log, answers>> /\ made \in 0..MaxCalls
      /\ MaxCalls \in Nat
  BY FrogAssumption DEF Begin, IInv, TypeOK
<1>. DEFINE n == IF r.op = "claim" /\ None \in {r.change, r.claim} THEN Fresh ELSE 0
            pc == CASE r.op \in {"import", "bundle"} -> "snapshot"
                    [] r.op = "claim" -> "eligible"
                    [] r.op = "amend" -> "load"
                    [] OTHER -> "releasing"
            k == [Idle EXCEPT !.req = r, !.n = n, !.pc = pc]
<1>4. n \in 0..MaxCalls /\ (r.op = "claim" /\ None \in {r.change, r.claim} => n # 0)
  BY <1>3, FreshIs
<1>5. \/ pc = "snapshot" /\ r.op \in {"import", "bundle"}
      \/ pc = "eligible" /\ r.op = "claim"
      \/ pc = "load" /\ r.op = "amend"
      \/ pc = "releasing" /\ r.op = "release"
  BY <1>2
<1>6. call' = [call EXCEPT ![c] = k]
  BY <1>1
<1>. HIDE DEF n, pc
<1>7. /\ k \in Call /\ k.req = r /\ k.n = n /\ k.pc = pc /\ k.head = 0
  <2>1. Idle \in Call /\ Idle.head = 0
    BY IdleType DEF Idle
  <2>2. pc \in Pc
    BY <1>5 DEF Pc
  <2>. QED BY <1>2, <1>4, <2>1, <2>2 DEF Call
<1>. HIDE DEF k
<1>8. call'[c] = k /\ call' \in [Caller -> Call]
  BY <1>6, <1>7, InvParts DEF TypeOK
<1>9. TypeOK'
  BY <1>3, <1>8, InvParts DEF TypeOK
<1>10. ASSUME NEW d \in Caller PROVE CallOK(d)'
  <2>1. CASE d # c
    <3>1. call'[d] = call[d] /\ CallOK(d) /\ TypeOK
      BY <1>6, <2>1 DEF IInv, TypeOK
    <3>. QED BY <1>3, <3>1, CallKept
  <2>2. CASE d = c
    <3>1. AskOK(c)'
      BY <1>4, <1>5, <1>7, <1>8 DEF AskOK, Claiming, Promoting
    <3>2. FoundOK(c)'
      BY <1>5, <1>7, <1>8 DEF FoundOK, Promoting
    <3>3. HeadOK(c)'
      BY <1>3, <1>5, <1>7, <1>8, LogEntries, InvParts DEF HeadOK
    <3>. QED BY <2>2, <3>1, <3>2, <3>3 DEF CallOK
  <2>. QED BY <2>1, <2>2
<1>11. Cardinality(Used') <= made'
  <2>1. Used' \subseteq Used \cup {n}
    <3>1. ASSUME NEW i \in 1..MaxCalls, NEW d \in Caller, i = call'[d].n
          PROVE  i = n \/ i = call[d].n
      BY <1>6, <1>7, <1>8, <3>1 DEF IInv, TypeOK
    <3>. QED BY <1>3, <3>1 DEF Used, Mentions
  <2>2. IsFiniteSet(Used)
    <3>1. IsFiniteSet(1..MaxCalls)
      BY FS_Interval, FrogAssumption
    <3>. QED BY <3>1, FS_Subset DEF Used
  <2>3. IsFiniteSet(Used \cup {n}) /\ Cardinality(Used \cup {n}) <= Cardinality(Used) + 1
    <3>1. Cardinality(Used) \in Nat
      BY <2>2, FS_CardinalityType
    <3>2. IsFiniteSet(Used \cup {n})
          /\ Cardinality(Used \cup {n}) = IF n \in Used THEN Cardinality(Used)
                                                       ELSE Cardinality(Used) + 1
      BY <2>2, FS_AddElement
    <3>. QED BY <3>1, <3>2
  <2>4. Cardinality(Used') <= Cardinality(Used \cup {n})
        /\ Cardinality(Used') \in Nat /\ Cardinality(Used \cup {n}) \in Nat
        /\ Cardinality(Used) \in Nat
    BY <2>1, <2>2, <2>3, FS_Subset, FS_CardinalityType
  <2>. QED BY <1>3, <2>3, <2>4 DEF IInv
<1>12. LogOK' /\ AnswersOK'
  BY <1>3 DEF IInv, LogOK, AnswersOK, Backed, CoversPromotion, SameEntity, Claims
<1>. QED BY <1>9, <1>10, <1>11, <1>12 DEF IInv

LEMMA InitOK ==
  ASSUME Init
  PROVE  IInv
<1>1. /\ log \in Seq(Entry)
      /\ \A i \in DOMAIN log : log[i].kind \in {"frog_snapshot", "imported_bundle"}
      /\ \A i, j \in DOMAIN log : log[i].kind = log[j].kind => i = j
  <2>1. CASE log = <<>>
    BY <2>1
  <2>2. CASE \E e \in Digest : log = <<[kind |-> "frog_snapshot", id |-> e],
                                       [kind |-> "imported_bundle", id |-> e]>>
    <3>1. PICK e \in Digest : log = <<[kind |-> "frog_snapshot", id |-> e],
                                      [kind |-> "imported_bundle", id |-> e]>>
      BY <2>2
    <3>2. [kind |-> "frog_snapshot", id |-> e] \in Entry
          /\ [kind |-> "imported_bundle", id |-> e] \in Entry
      BY DEF Entry, Receipt, Bundle
    <3>. QED BY <3>1, <3>2
  <2>. QED BY <2>1, <2>2 DEF Init
<1>2. /\ call = [c \in Caller |-> Idle] /\ made = 0 /\ answers = {}
      /\ \A c \in Caller : call[c] = Idle
  BY DEF Init
<1>3. TypeOK
  BY <1>1, <1>2, IdleType, FrogAssumption DEF TypeOK
<1>4. LogOK
  <2>1. \A j \in DOMAIN log : \A i \in 1..j-1 : ~ SameEntity(i, j)
    <3>1. ASSUME NEW j \in DOMAIN log, NEW i \in 1..j-1 PROVE i \in DOMAIN log /\ i # j
      BY <1>3, LogEntries
    <3>. QED BY <1>1, <3>1 DEF SameEntity
  <2>2. \A i \in DOMAIN log : Backed(log[i])
    BY <1>1 DEF Backed
  <2>3. Claims = {}
    BY <1>1 DEF Claims
  <2>. QED BY <2>1, <2>2, <2>3 DEF LogOK
<1>5. \A c \in Caller : CallOK(c)
  BY <1>2, <1>3, LogEntries DEF CallOK, AskOK, FoundOK, HeadOK, Idle, Promoting, Claiming
<1>6. Cardinality(Used) <= made
  <2>1. \A i \in 1..MaxCalls : i # 0
    OBVIOUS
  <2>2. Used = {}
    BY <1>1, <1>2, <2>1 DEF Used, Mentions, Idle
  <2>. QED BY <1>2, <2>2, FS_EmptySet
<1>7. AnswersOK
  BY <1>2 DEF AnswersOK
<1>. QED BY <1>3, <1>4, <1>5, <1>6, <1>7 DEF IInv

LEMMA NextStep ==
  ASSUME IInv, [Next]_vars
  PROVE  IInv'
<1>1. CASE UNCHANGED vars
  <2>1. TypeOK' /\ (Cardinality(Used) <= made)'
    BY <1>1 DEF IInv, TypeOK, vars, Used, Mentions
  <2>2. LogOK' /\ AnswersOK'
    BY <1>1 DEF IInv, vars, LogOK, AnswersOK, Backed, CoversPromotion, SameEntity, Claims
  <2>3. ASSUME NEW c \in Caller PROVE CallOK(c)'
    BY <1>1, CallKept DEF IInv, vars
  <2>. QED BY <2>1, <2>2, <2>3 DEF IInv
<1>2. ASSUME NEW c \in Caller, ReadSnapshots(c) \/ ReadBundles(c) PROVE IInv'
  BY <1>2, LookStep DEF ReadSnapshots, ReadBundles
<1>3. ASSUME NEW c \in Caller, RecordSnapshot(c) \/ RecordBundle(c) PROVE IInv'
  BY <1>3, StoreStep DEF RecordSnapshot, RecordBundle
<1>. QED
  BY <1>1, <1>2, <1>3, BeginStep, CrashStep, CheckEligibleStep, FindPromotionStep,
     ReadPromotionsStep, ReserveStep, GetChangeSetStep, CreateChangeSetStep,
     PlanChangeSetStep, CompleteStep, FindClaimStep, ReadScopesStep, ReadClaimsStep,
     AcquireStep, LoadChangeSetStep, StoreChangeSetStep, ReadClaimStep, ReleaseStep
  DEF Next

LEMMA Invariance == Spec => []IInv
<1>1. Init => IInv
  BY InitOK
<1>2. IInv /\ [Next]_vars => IInv'
  BY NextStep
<1>. QED BY <1>1, <1>2, PTL DEF Spec
-----------------------------------------------------------------------------
(* A ledger holds only records, and a call only what it may hold: in       *)
(* particular there is always an id left for it to generate.               *)
THEOREM TypeCorrect == Spec => []TypeOK
<1>1. IInv => TypeOK
  BY DEF IInv
<1>. QED BY <1>1, Invariance, PTL

LEMMA PromotionKept ==
  ASSUME TypeOK, LogOK, NEW i \in DOMAIN log, log[i].kind = "frog_task_promotion", log[i].done
  PROVE  LET promo == Promoted(log[i].id) IN
         /\ promo # Nothing /\ promo.done
         /\ promo.change = log[i].change /\ promo.scopes = log[i].scopes
<1>1. Has("frog_task_promotion", log[i].id)
  BY DEF Has
<1>2. PICK j \in DOMAIN log :
        /\ Promoted(log[i].id) = log[j] /\ Promoted(log[i].id) # Nothing
        /\ log[j].kind = "frog_task_promotion" /\ log[j].id = log[i].id /\ i <= j
  BY <1>1, LatestIs DEF Promoted
<1>3. SameEntity(i, j)
  BY <1>2 DEF SameEntity
<1>4. i = j \/ i \in 1..j-1
  BY <1>2, LogEntries
<1>5. log[j].done
  BY <1>2, <1>3, <1>4 DEF LogOK
<1>6. log[i].change = log[j].change /\ log[i].scopes = log[j].scopes
  BY <1>3, RecordsAgree
<1>. QED BY <1>2, <1>5, <1>6

(* The scopes a task was promoted with are covered by all that covers the  *)
(* scopes of some task of the Change Set, as long as there is only one.    *)
LEMMA Unshared ==
  ASSUME TypeOK, LogOK, NEW i \in DOMAIN log, log[i].kind = "frog_task_promotion",
         ~ Shared(log[i].change), NEW scopes, CoversPromotion(log[i].change, scopes)
  PROVE  log[i].scopes \subseteq scopes
<1>1. PICK j \in DOMAIN log : /\ log[j].kind = "frog_task_promotion"
                              /\ log[j].change = log[i].change /\ log[j].scopes \subseteq scopes
  BY DEF CoversPromotion
<1>2. log[i] \in ToSet(log) /\ log[j] \in ToSet(log)
  BY DEF ToSet
<1>3. log[j].id = log[i].id
  BY <1>1, <1>2 DEF Shared
<1>4. SameEntity(i, j)
  BY <1>1, <1>3 DEF SameEntity
<1>. QED BY <1>1, <1>4, RecordsAgree

(* AnswerIsBacked, for any number of processes and whatever is asked: what *)
(* claim told its caller stays true, whoever else finished the promotion,  *)
(* died in it, amended the Change Set or released the claim.               *)
THEOREM AnswersStayTrue == Spec => []AnswerIsBacked
<1>1. ASSUME IInv PROVE AnswerIsBacked
  <2>1. TypeOK /\ LogOK
    BY <1>1 DEF IInv
  <2>2. ASSUME NEW a \in answers
        PROVE  LET promo == Promoted(a.task)
                   k == Latest("claim", a.claim)
               IN /\ promo # Nothing /\ promo.done
                  /\ promo.change = a.change /\ promo.scopes = a.scopes
                  /\ k # Nothing /\ k.change = a.change /\ k.session = a.session
                  /\ Shared(a.change) \/ a.scopes \subseteq k.scopes
    <3>1. PICK i \in DOMAIN log :
            /\ log[i].kind = "frog_task_promotion" /\ log[i].id = a.task
            /\ log[i].change = a.change /\ log[i].scopes = a.scopes /\ log[i].done
      BY <1>1 DEF IInv, AnswersOK
    <3>2. PICK j \in DOMAIN log : /\ log[j].kind = "claim" /\ log[j].id = a.claim
                                  /\ log[j].change = a.change /\ log[j].session = a.session
      BY <1>1 DEF IInv, AnswersOK
    <3>3. LET promo == Promoted(a.task) IN
          /\ promo # Nothing /\ promo.done
          /\ promo.change = a.change /\ promo.scopes = a.scopes
      BY <2>1, <3>1, PromotionKept
    <3>4. PICK m \in DOMAIN log :
            /\ Latest("claim", a.claim) = log[m] /\ Latest("claim", a.claim) # Nothing
            /\ log[m].kind = "claim" /\ log[m].id = a.claim
      BY <2>1, <3>2, LatestIs DEF Has
    <3>5. SameEntity(m, j)
      BY <3>2, <3>4 DEF SameEntity
    <3>6. log[m].change = a.change /\ log[m].session = a.session
      BY <2>1, <3>2, <3>4, <3>5, RecordsAgree
    <3>7. CoversPromotion(a.change, log[m].scopes)
      BY <2>1, <3>4, <3>6 DEF LogOK, Backed
    <3>8. Shared(a.change) \/ a.scopes \subseteq log[m].scopes
      BY <2>1, <3>1, <3>7, Unshared
    <3>. QED BY <3>3, <3>4, <3>6, <3>8
  <2>. QED BY <2>2 DEF AnswerIsBacked
<1>. QED BY <1>1, Invariance, PTL

(* Two open claims of one Change Set compete, for each covers the scopes   *)
(* of its only task, and these are never none.                             *)
LEMMA ClaimsOfOneChange ==
  ASSUME TypeOK, LogOK, NEW k \in Claims, NEW l \in Claims, k.open, l.open,
         k.change = l.change, ~ Shared(k.change)
  PROVE  k = l
<1>1. PICK i \in DOMAIN log : k = log[i] /\ log[i].kind = "claim"
  BY ClaimsAre
<1>2. PICK j \in DOMAIN log : l = log[j] /\ log[j].kind = "claim"
  BY ClaimsAre
<1>3. CoversPromotion(k.change, k.scopes) /\ CoversPromotion(k.change, l.scopes)
  BY <1>1, <1>2 DEF LogOK, Backed
<1>4. PICK m \in DOMAIN log : log[m].kind = "frog_task_promotion" /\ log[m].change = k.change
  BY <1>3 DEF CoversPromotion
<1>5. log[m].scopes # {}
  BY <1>4 DEF LogOK, Backed
<1>6. log[m].scopes \subseteq k.scopes /\ log[m].scopes \subseteq l.scopes
  BY <1>3, <1>4, Unshared
<1>. QED BY <1>5, <1>6 DEF LogOK

(* NothingTwice, for any number of processes: a plan, a bundle and a       *)
(* reservation are recorded once, and a retry finds at most one open claim *)
(* of its session.                                                         *)
THEOREM RecordedOnce == Spec => []NothingTwice
<1>1. ASSUME IInv PROVE NothingTwice
  <2>1. TypeOK /\ LogOK
    BY <1>1 DEF IInv
  <2>2. ASSUME NEW i \in DOMAIN log, First(log[i]), NEW j \in 1..i-1, First(log[j]),
               log[i].kind = log[j].kind, log[i].id = log[j].id
        PROVE  FALSE
    <3>1. SameEntity(j, i)
      BY <2>2 DEF SameEntity
    <3>. QED BY <2>1, <2>2, <3>1 DEF LogOK, First
  <2>3. \A k, l \in Claims :
          k.open /\ l.open /\ k.session = l.session /\ k.change = l.change =>
            k = l \/ Shared(k.change)
    BY <2>1, ClaimsOfOneChange
  <2>. QED BY <2>2, <2>3 DEF NothingTwice
<1>. QED BY <1>1, Invariance, PTL

(* More than NothingTwice says: no two open claims of a Change Set that    *)
(* stands for one task, whosever they are, and none that share a scope.    *)
THEOREM ClaimsExclude ==
  Spec => [](\A k, l \in Claims :
               k.open /\ l.open /\ k # l =>
                 /\ k.scopes \cap l.scopes = {}
                 /\ k.change = l.change => Shared(k.change))
<1>1. ASSUME IInv
      PROVE  \A k, l \in Claims :
               k.open /\ l.open /\ k # l =>
                 /\ k.scopes \cap l.scopes = {}
                 /\ k.change = l.change => Shared(k.change)
  BY <1>1, ClaimsOfOneChange DEF IInv, LogOK
<1>. QED BY <1>1, Invariance, PTL
=============================================================================
