-------------------------------- MODULE Forge --------------------------------
(***************************************************************************)
(* application/ports/forge.py and its five adapters: one observation of a  *)
(* code forge, made of one request per page while the forge goes on        *)
(* changing.  An observation ends as available, missing, unsupported or    *)
(* unavailable (ForgeResult); it changes nothing on the forge.             *)
(*                                                                         *)
(* The forge is outside the repository: its objects are known here by what *)
(* the adapters read of them, an identity, the provider's word for their   *)
(* state, and for an inline comment of a Gitea review the review it is of. *)
(***************************************************************************)
EXTENDS SequencesExt, Naturals, FiniteSets, TLC

CONSTANTS
  Provider,    \* the adapters: some of "github", "gitlab", "gitea",
               \* "bitbucket" and "azure"
  PageSize,    \* objects per page (100 in the code)
  MaxPages,    \* requests per listing (100 in the code)
  Sample,      \* bound: the provider words for checks and runs that occur
  MaxObjects,  \* bound: objects the forge starts with
  MaxChanges   \* bound: changes of the forge during the observation

ASSUME ForgeAssumption ==
  /\ Provider \subseteq {"github", "gitlab", "gitea", "bitbucket", "azure"}
  /\ PageSize \in Nat \ {0} /\ MaxPages \in Nat \ {0}
  /\ MaxObjects \in Nat /\ MaxChanges \in Nat
-----------------------------------------------------------------------------
(* What of s is in T, in its order: up to each place of s, and all of it.  *)
OnlyUpTo(s, T) ==
  LET upto[i \in 0..Len(s)] ==
        IF i = 0 THEN <<>>
        ELSE IF s[i] \in T THEN Append(upto[i - 1], s[i]) ELSE upto[i - 1]
  IN  upto

Only(s, T) == OnlyUpTo(s, T)[Len(s)]

ForgeObject(words, parents) == [id : Nat, word : words, of : parents]

(* What the adapters make of a provider's words.  A word the table lacks   *)
(* has the default; "malformed" makes the whole observation unavailable,   *)
(* and what is "hidden" is left out of it.                                 *)

Table(default, words) == [words |-> words, default |-> default]

Translate(table, word) ==
  IF word \in DOMAIN table.words THEN table.words[word] ELSE table.default

(* "merged" is, for GitHub and Gitea, a closed request with its merge mark.*)
GithubState ==
  Table("malformed", [open |-> "open", closed |-> "closed", merged |-> "merged"])
GitlabState ==
  Table("closed", [opened |-> "open", reopened |-> "open", merged |-> "merged"])
GiteaState == Table("closed", [open |-> "open", merged |-> "merged"])
BitbucketState ==
  Table("malformed", [OPEN |-> "open", MERGED |-> "merged",
                      DECLINED |-> "closed", SUPERSEDED |-> "closed"])
AzureState ==
  Table("malformed", [active |-> "open", abandoned |-> "closed", completed |-> "merged"])

StateTable(p) ==
  CASE p = "github" -> GithubState [] p = "gitlab" -> GitlabState
    [] p = "gitea" -> GiteaState [] p = "bitbucket" -> BitbucketState
    [] p = "azure" -> AzureState

(* A check or a run: its conclusion once it has completed ("completed" when*)
(* that is not known), and its status until then.                          *)

(* GitHub reports a conclusion beside the status "completed".              *)
GithubRun ==
  Table("unknown",
    [success |-> "passed", failure |-> "failed",
     cancelled |-> "cancelled", skipped |-> "skipped",
     neutral |-> "neutral", action_required |-> "action_required",
     stale |-> "stale", timed_out |-> "timed_out",
     startup_failure |-> "startup_failure", completed |-> "completed",
     queued |-> "queued", in_progress |-> "in_progress",
     waiting |-> "waiting", pending |-> "pending",
     requested |-> "requested"])

GitlabRun ==
  Table("unknown",
    [success |-> "passed", failed |-> "failed",
     canceled |-> "cancelled", cancelled |-> "cancelled",
     skipped |-> "skipped",
     running |-> "in_progress", canceling |-> "in_progress",
     pending |-> "pending",
     created |-> "queued", preparing |-> "queued",
     scheduled |-> "waiting", manual |-> "waiting",
     waiting_for_callback |-> "waiting",
     waiting_for_resource |-> "waiting"])

GiteaRun ==
  Table("unknown",
    [success |-> "passed", failure |-> "failed",
     error |-> "failed", skipped |-> "skipped",
     warning |-> "neutral", cancelled |-> "cancelled",
     canceled |-> "cancelled", pending |-> "pending",
     queued |-> "queued", in_progress |-> "in_progress",
     running |-> "in_progress", waiting |-> "waiting",
     requested |-> "requested"])

BitbucketCheck ==
  Table("unknown",
    [SUCCESSFUL |-> "passed", FAILED |-> "failed",
     STOPPED |-> "cancelled", INPROGRESS |-> "in_progress",
     PENDING |-> "pending"])

BitbucketRun ==
  Table("unknown",
    [SUCCESSFUL |-> "passed", FAILED |-> "failed",
     ERROR |-> "startup_failure", STOPPED |-> "cancelled",
     EXPIRED |-> "timed_out", COMPLETED |-> "completed",
     IN_PROGRESS |-> "in_progress", PENDING |-> "pending",
     PAUSED |-> "waiting"])

AzureCheck ==
  Table("unknown",
    [succeeded |-> "passed", failed |-> "failed",
     error |-> "startup_failure", notapplicable |-> "skipped",
     pending |-> "pending"])

AzureRun ==
  Table("unknown",
    [succeeded |-> "passed", partiallysucceeded |-> "neutral",
     failed |-> "failed", canceled |-> "cancelled",
     completed |-> "completed", notstarted |-> "queued",
     postponed |-> "waiting", inprogress |-> "in_progress",
     cancelling |-> "in_progress"])

RunTable(p, family) ==
  CASE p = "github" -> GithubRun
    [] p = "gitlab" -> GitlabRun
    [] p = "gitea" -> GiteaRun
    [] p = "bitbucket" -> IF family = "checks" THEN BitbucketCheck ELSE BitbucketRun
    [] p = "azure" -> IF family = "checks" THEN AzureCheck ELSE AzureRun

GithubReview ==
  Table("unknown",
    [PENDING |-> "pending", COMMENTED |-> "commented", APPROVED |-> "approved",
     CHANGES_REQUESTED |-> "changes_requested", DISMISSED |-> "dismissed"])
GitlabReview == Table("approved", [approved |-> "approved"])
GiteaReview ==
  Table("unknown",
    [APPROVED |-> "approved", PENDING |-> "pending", COMMENT |-> "commented",
     REQUEST_CHANGES |-> "changes_requested", REQUEST_REVIEW |-> "pending"])
BitbucketReview ==
  Table("pending", [approved |-> "approved", participant |-> "hidden"])
(* The votes 10 and 5, -10 and -5, and 0.                                  *)
AzureReview ==
  Table("pending", [approved |-> "approved", suggestions |-> "approved",
                    rejected |-> "changes_requested", waiting |-> "changes_requested"])

ReviewTable(p) ==
  CASE p = "github" -> GithubReview [] p = "gitlab" -> GitlabReview
    [] p = "gitea" -> GiteaReview [] p = "bitbucket" -> BitbucketReview
    [] p = "azure" -> AzureReview

(* Changed files.  A GitLab diff that is collapsed or too large makes the  *)
(* observation unavailable.                                                *)
GithubFile ==
  Table("malformed",
    [added |-> "added", modified |-> "modified", removed |-> "deleted",
     renamed |-> "renamed", copied |-> "copied", changed |-> "type_changed",
     unchanged |-> "modified"])
GitlabFile ==
  Table("modified",
    [renamed_file |-> "renamed", new_file |-> "added", deleted_file |-> "deleted",
     collapsed |-> "malformed"])
GiteaFile ==
  Table("modified",
    [added |-> "added", modified |-> "modified", deleted |-> "deleted",
     removed |-> "deleted", renamed |-> "renamed", copied |-> "copied",
     changed |-> "modified"])
BitbucketFile ==
  Table("malformed", [added |-> "added", modified |-> "modified",
                      removed |-> "deleted", renamed |-> "renamed"])
AzureFile ==
  Table("malformed", [rename |-> "renamed", add |-> "added",
                      delete |-> "deleted", edit |-> "modified"])

FileTable(p) ==
  CASE p = "github" -> GithubFile [] p = "gitlab" -> GitlabFile
    [] p = "gitea" -> GiteaFile [] p = "bitbucket" -> BitbucketFile
    [] p = "azure" -> AzureFile

(* Comments.  Those of the system and deleted ones are left out.           *)
GithubComment == Table("general", [inline |-> "review"])
GitlabComment == Table("general", [inline |-> "review", system |-> "hidden"])
GiteaComment == Table("general", [inline |-> "review"])
BitbucketComment == Table("general", [inline |-> "review", deleted |-> "hidden"])
AzureComment ==
  Table("general", [inline |-> "review", system |-> "hidden", deleted |-> "hidden"])

CommentTable(p) ==
  CASE p = "github" -> GithubComment [] p = "gitlab" -> GitlabComment
    [] p = "gitea" -> GiteaComment [] p = "bitbucket" -> BitbucketComment
    [] p = "azure" -> AzureComment
-----------------------------------------------------------------------------
(* What is asked.  actions says whether a Gitea instance is configured     *)
(* with Actions.                                                           *)
Family ==
  {"change_requests", "checks", "workflow_runs", "reviews", "comments", "changed_files"}
Filter == {"any", "open", "closed", "merged"}

Asks ==
  {a \in [provider : Provider, family : Family, filter : Filter, actions : BOOLEAN] :
     /\ a.family # "change_requests" => a.filter = "any"
     /\ ~ a.actions => a.provider = "gitea" /\ a.family = "workflow_runs"}

TableOf(a) ==
  CASE a.family = "change_requests" -> StateTable(a.provider)
    [] a.family = "reviews" -> ReviewTable(a.provider)
    [] a.family = "comments" -> CommentTable(a.provider)
    [] a.family = "changed_files" -> FileTable(a.provider)
    [] OTHER -> RunTable(a.provider, a.family)

(* Objects that are listed by their parent: Gitea's inline comments by     *)
(* their review, Azure's changed files by the iteration of the push.       *)
Parent(a) ==
  CASE a.provider = "gitea" /\ a.family = "comments" -> "review"
    [] a.provider = "azure" /\ a.family = "changed_files" -> "iteration"
    [] OTHER -> "none"
ChildWords(a) ==
  CASE Parent(a) = "review" -> {"inline"}
    [] Parent(a) = "iteration" -> {"edit"}
    [] OTHER -> {}

(* Words the provider may use for an object of the family.                 *)
Words(a) ==
  LET known == DOMAIN TableOf(a).words
  IN CASE a.family = "change_requests" ->
            known \cup (CASE a.provider \in {"gitlab", "gitea"} -> {"closed"}
                          [] a.provider = "bitbucket" -> {}
                          [] OTHER -> {"odd"})
       [] a.family = "comments" -> (known \cup {"general", Parent(a)}) \ {"none"}
       [] Parent(a) = "iteration" -> {"edit", "iteration"}
       [] a.family = "reviews" /\ a.provider = "gitlab" -> known
       [] OTHER -> Sample \cap (known \cup {"odd"})

Meaning(a, o) == Translate(TableOf(a), o.word)
Ids(objects) == {o.id : o \in objects}

(* The objects that a complete answer lists.                               *)
Wanted(a, objects) ==
  LET parents == {o \in objects : o.word = Parent(a)}
  IN {o \in objects \ parents :
        /\ Meaning(a, o) # "hidden"
        /\ a.filter \in {"any", Meaning(a, o)}
        /\ Parent(a) = "iteration" => o.of = Max(Ids(parents))}

Value(a, o) == [id |-> o.id, is |-> Meaning(a, o)]
-----------------------------------------------------------------------------
(* The listings an observation reads, those of children when their parents *)
(* are known.  A listing is of the objects with some words, all of them or *)
(* those of a parent, and is read whole or by pages: of numbered pages the *)
(* first that is not full is the last, of linked pages each says whether   *)
(* there is a next.                                                        *)
Query(words, paging) == [words |-> words, of |-> 0, paging |-> paging]

Of(a, states) == {w \in Words(a) : Translate(TableOf(a), w) \in states}

(* GitHub and Gitea know merged requests as closed.                        *)
ClosedIncludesMerged(a) ==
  IF a.filter = "open" THEN Of(a, {"open"}) ELSE Of(a, {"closed", "merged"})

GithubListings(a) ==
  CASE a.filter # "any" -> <<Query(ClosedIncludesMerged(a), "numbered")>>
    [] a.family = "comments" ->
         <<Query({"general"}, "numbered"), Query({"inline"}, "numbered")>>
    [] OTHER -> <<Query(Words(a), "numbered")>>

GitlabListings(a) ==
  CASE a.filter # "any" -> <<Query(Of(a, {a.filter}), "numbered")>>
    [] a.family = "reviews" -> <<Query(Words(a), "whole")>>
    [] OTHER -> <<Query(Words(a), "numbered")>>

GiteaListings(a) ==
  CASE a.filter # "any" -> <<Query(ClosedIncludesMerged(a), "numbered")>>
    [] a.family = "comments" ->
         <<Query({"general"}, "numbered"), Query({"review"}, "numbered")>>
    [] OTHER -> <<Query(Words(a), "numbered")>>

(* One listing for each state.                                             *)
BitbucketListings(a) ==
  CASE a.family = "change_requests" ->
         LET states == <<"OPEN", "MERGED", "DECLINED", "SUPERSEDED">>
             asked  == {s \in ToSet(states) :
                          a.filter \in {"any", Translate(BitbucketState, s)}}
             chosen == Only(states, asked)
         IN [i \in DOMAIN chosen |-> Query({chosen[i]}, "next")]
    [] a.family = "reviews" -> <<Query(Words(a), "whole")>>
    [] OTHER -> <<Query(Words(a), "next")>>

AzureListings(a) ==
  CASE a.filter # "any" -> <<Query(Of(a, {a.filter}), "linked")>>
    [] a.family = "checks" -> <<Query(Words(a), "numbered")>>
    [] a.family = "changed_files" -> <<Query({"iteration"}, "linked")>>
    [] OTHER -> <<Query(Words(a), "linked")>>

Listings(a) ==
  CASE a.provider = "github" -> GithubListings(a)
    [] a.provider = "gitlab" -> GitlabListings(a)
    [] a.provider = "gitea" -> GiteaListings(a)
    [] a.provider = "bitbucket" -> BitbucketListings(a)
    [] a.provider = "azure" -> AzureListings(a)

(* The comments of every review; the changes of the last iteration.        *)
ReviewComments(objects) ==
  LET reviews == Only(objects, ForgeObject({"review"}, Nat))
  IN [i \in DOMAIN reviews |->
        [words |-> {"inline"}, of |-> reviews[i].id, paging |-> "numbered"]]

IterationChanges(objects) ==
  LET iterations == {o \in ToSet(objects) : o.word = "iteration"}
  IN IF iterations = {} THEN <<>>
     ELSE <<[words |-> {"edit"}, of |-> Max(Ids(iterations)), paging |-> "linked"]>>
-----------------------------------------------------------------------------
VARIABLES
  ask,     \* the observation
  forge,   \* the objects of that family, in the order the forge lists them
  todo,    \* listings still to read, the first of them in progress
  page,    \* its page to be requested next
  got,     \* objects received
  result,  \* the ForgeResult, once there is one
  changes, \* how often the forge has changed
  past     \* what has been true since the observation began: the objects
           \* that stayed, whether one left a listing, all that was there,
           \* and whether the forge answered "not found"

forgeVars == <<ask, forge, todo, page, got, result, changes, past>>

Outcome(is) == [is |-> is, values |-> <<>>]

(* Children belong to any of the parents there are.                        *)
Forges(a) ==
  LET List(n) == {f \in [1..n -> [id : 1..n, word : Words(a), of : 0..MaxObjects]] :
        \A i \in 1..n :
          /\ f[i].id = i
          /\ IF f[i].word \in ChildWords(a)
             THEN f[i].of \in 1..n /\ f[f[i].of].word = Parent(a)
             ELSE f[i].of = 0}
  IN UNION {List(n) : n \in 0..MaxObjects}

(* Gitea without Actions answers for its workflow runs without a request.  *)
ForgeInit ==
  \E a \in Asks : \E f \in Forges(a) :
    /\ ask = a /\ forge = f
    /\ todo = Listings(a) /\ page = 1 /\ got = <<>>
    /\ result = Outcome(IF a.actions THEN "pending" ELSE "unsupported")
    /\ changes = 0
    /\ past = [stayed |-> Ids(Wanted(a, ToSet(f))),
               left |-> FALSE, seen |-> ToSet(f), notFound |-> FALSE]
-----------------------------------------------------------------------------
(* The forge changes.                                                      *)
Reading == result.is = "pending"

Changes(objects, leaves) ==
  /\ Reading
  /\ changes < MaxChanges
  /\ changes' = changes + 1
  /\ forge' = objects
  /\ past' = [past EXCEPT
       !.stayed = @ \cap Ids(Wanted(ask, ToSet(objects))),
       !.left = @ \/ leaves,
       !.seen = @ \cup ToSet(objects)]
  /\ UNCHANGED <<ask, todo, page, got, result>>

(* Reviews and comments are listed oldest first, all else newest first.    *)
Create(w) ==
  LET o == [id |-> MaxObjects + changes + 1, word |-> w, of |-> 0]
  IN /\ w \notin ChildWords(ask)
     /\ Changes(IF ask.family \in {"reviews", "comments"}
                THEN Append(forge, o) ELSE <<o>> \o forge, FALSE)

Delete(i) ==
  /\ ask.family \notin {"change_requests", "checks"}
  /\ Parent(ask) # "iteration"
  /\ Changes(Only(forge, {o \in ToSet(forge) : forge[i].id \notin {o.id, o.of}}), TRUE)

(* Gitea lists the most recently updated check first, and Azure, asked for *)
(* finishTimeDescending, the most recently finished build.                 *)
ToTheFront(o) ==
  \/ ask.provider = "gitea" /\ ask.family = "checks"
  \/ /\ ask.provider = "azure" /\ ask.family = "workflow_runs"
     /\ Meaning(ask, o) \notin {"queued", "waiting", "in_progress"}

(* An object changes its state, in its place or to the front of the list.  *)
(* What is merged stays merged.                                            *)
Update(i, w) ==
  LET o == [forge[i] EXCEPT !.word = w]
      leaves == \E q \in ToSet(Listings(ask)) : forge[i].word \in q.words /\ w \notin q.words
  IN /\ ask.family # "comments" /\ Parent(ask) = "none"
     /\ w # forge[i].word
     /\ Meaning(ask, forge[i]) # "merged"
     /\ IF ToTheFront(o)
        THEN Changes(<<o>> \o RemoveAt(forge, i), TRUE)
        ELSE Changes([forge EXCEPT ![i] = o], leaves)
-----------------------------------------------------------------------------
(* The adapter reads.                                                      *)

Listed(q) == ForgeObject(q.words, {q.of})

Listing(q) == Only(forge, Listed(q))

Batch ==
  LET list == Listing(Head(todo))
      last == page * PageSize
  IN IF Head(todo).paging = "whole" THEN list
     ELSE SubSeq(list, (page - 1) * PageSize + 1, IF Len(list) < last THEN Len(list) ELSE last)

(* Mutant: a page that is not too long is the last.                        *)
LastPageAlways == Len(Batch) <= PageSize

LastPage ==
  CASE Head(todo).paging = "numbered" -> Len(Batch) < PageSize
    [] Head(todo).paging = "whole" -> TRUE
    [] OTHER -> page * PageSize >= Len(Listing(Head(todo)))

(* Bitbucket's loop has no turn left to find that the last page it may     *)
(* request has no next.                                                    *)
WithinLimit == page < MaxPages \/ (LastPage /\ Head(todo).paging # "next")

(* Mutant: the state the adapter was asked for is left to the query.       *)
KeepAll(values) == values

(* GitHub and Gitea asked for closed requests get merged ones as well.     *)
KeepAsked(values) ==
  IF ask.filter # "any" /\ ask.provider \in {"github", "gitea"}
  THEN Only(values, [id : Nat, is : {ask.filter}])
  ELSE values

(* Hidden objects, and the parents of what was asked for, are no values.   *)
Convert(objects) ==
  LET shown == {w \in Words(ask) : w # Parent(ask) /\ Translate(TableOf(ask), w) # "hidden"}
      list  == Only(objects, ForgeObject(shown, Nat))
  IN [i \in DOMAIN list |-> Value(ask, list[i])]

(* A listing of requests, checks or runs that is empty is missing, and so  *)
(* are changed files without an iteration; reviews, comments and files are *)
(* available even when there are none.                                     *)
Conclude(objects) ==
  LET values == Convert(objects)
      kept   == KeepAsked(values)
  IN CASE \E v \in ToSet(values) : v.is = "malformed" -> Outcome("unavailable")
       [] /\ kept = <<>>
          /\ \/ ask.family \in {"change_requests", "checks", "workflow_runs"}
             \/ Parent(ask) = "iteration" /\ objects = <<>> -> Outcome("missing")
       [] OTHER -> [is |-> "available", values |-> kept]

(* The parent whose children are requested is still there.                 *)
Answerable == Head(todo).of \in Ids(ToSet(forge)) \cup {0}

PageArrives ==
  LET received == got \o Batch
      children == IF ~ LastPage THEN <<>>
                  ELSE CASE Head(todo).words = {"review"} -> ReviewComments(received)
                         [] Head(todo).words = {"iteration"} -> IterationChanges(received)
                         [] OTHER -> <<>>
      rest == (IF LastPage THEN Tail(todo) ELSE todo) \o children
  IN /\ Reading
     /\ Answerable
     /\ got' = received
     /\ todo' = rest
     /\ page' = IF LastPage THEN 1 ELSE page + 1
     /\ result' = CASE ~ WithinLimit -> Outcome("unavailable")
                    [] WithinLimit /\ rest = <<>> -> Conclude(received)
                    [] OTHER -> result
     /\ UNCHANGED <<ask, forge, changes, past>>

(* HTTP 404, for the repository, or for what a request names.              *)
NotFound ==
  /\ Reading
  /\ result' = IF ask.provider = "gitea" /\ ask.family = "workflow_runs"
               THEN Outcome("unsupported") ELSE Outcome("missing")
  /\ past' = [past EXCEPT !.notFound = TRUE]
  /\ UNCHANGED <<ask, forge, todo, page, got, changes>>

(* No connection, another status, or a body that cannot be read.           *)
Fail ==
  /\ Reading
  /\ result' = Outcome("unavailable")
  /\ UNCHANGED <<ask, forge, todo, page, got, changes, past>>

ForgeNext ==
  \/ \E w \in Words(ask) : Create(w)
  \/ \E i \in DOMAIN forge : Delete(i) \/ \E w \in Words(ask) : Update(i, w)
  \/ PageArrives \/ NotFound \/ Fail

ForgeSpec == ForgeInit /\ [][ForgeNext]_forgeVars
-----------------------------------------------------------------------------
Available == result.is = "available"

(* Every value of an available observation was on the forge while it was   *)
(* read, is of the kind asked for and was not hidden, and is no guess: a   *)
(* word the adapter does not know neither passes nor fails nor approves.   *)
ValuesAreReported ==
  Available => \A v \in ToSet(result.values) :
    /\ ask.family = "change_requests" => ask.filter \in {"any", v.is}
    /\ \E o \in past.seen :
         /\ v = Value(ask, o)
         /\ o.word # Parent(ask) /\ Meaning(ask, o) # "hidden"
         /\ o.word = "odd" => v.is \notin {"passed", "failed", "approved"}

(* An available observation may list an object twice, and it may miss one; *)
(* but one that was there all along is missed only if some object left a   *)
(* listing, or moved to its front, while the pages were being read.  So it *)
(* is with "missing", which says that there is nothing: unless the forge   *)
(* answered "not found", nothing that was asked for was there all along.   *)
NothingIsOverlooked ==
  ~ past.left =>
    /\ Available => past.stayed \subseteq {v.id : v \in ToSet(result.values)}
    /\ result.is = "missing" /\ ~ past.notFound => past.stayed = {}
=============================================================================
