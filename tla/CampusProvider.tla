--------------------------- MODULE CampusProvider ---------------------------
(***************************************************************************)
(* The Kubernetes execution provider of Campus labs, in one slot: how      *)
(* concurrent provision and delete calls, some of them by workers the      *)
(* journal has long superseded, meet in the slot's namespace.              *)
(*                                                                         *)
(* One step is one call to the Kubernetes API server.  A workload is its   *)
(* slot generation.  Its anchor and its tombstone are one ConfigMap name;  *)
(* its Job stands for the Job and its Pods.  The uid of an anchor is its   *)
(* count among the workload's anchors: an ownerReference to an uid that is *)
(* no longer there is what the garbage collector acts on.                  *)
(***************************************************************************)
EXTENDS Naturals

CONSTANTS
    Callers,        \* provider calls that may be under way at once
    MaxGen,         \* bound: occupancies of the slot
    MaxFaults       \* bound: calls that fail or lose their worker

ASSUME ProviderAssumption == MaxGen \in Nat \ {0} /\ MaxFaults \in Nat

Gens == 1..MaxGen
Tries == 3

VARIABLES
    cm,         \* the ConfigMap of each workload: none, active or tombstone
    made,       \* anchors created for it; the last one's uid
    secret,     \* the owner uid of its broker token Secret, 0 without one
    owner,      \* the owner uid of its Job
    job,        \* its Job: none, live or terminating
    gen,        \* journal: the newest occupancy of the slot
    revoked,    \* journal: occupancies whose session is stopping or ended
    freed,      \* journal: occupancies whose teardown was confirmed
    fenced,     \* workloads a tombstone was written for
    told,       \* workloads a delete answered Deleted for
    pc, arg, uid, tries, older,     \* each call: step, workload, anchor, loop, prune list
    faults

cluster == <<cm, made, secret, owner, job>>
journal == <<gen, revoked, freed>>
history == <<fenced, told>>
call == <<pc, arg, uid, tries, older>>
vars == <<cluster, journal, history, call, faults>>

-----------------------------------------------------------------------------
\* The owner of the object is there: the garbage collector leaves it alone.
OwnerLives(g, u) == cm[g] = "active" /\ made[g] = u

LiveJob(g) == job[g] = "live" /\ OwnerLives(g, owner[g])
LiveSecret(g) == secret[g] # 0 /\ OwnerLives(g, secret[g])

Goto(c, step) == pc' = [pc EXCEPT ![c] = step] /\ UNCHANGED <<arg, uid, tries, older>>

Ended(c) ==
    /\ pc' = [pc EXCEPT ![c] = "idle"]
    /\ arg' = [arg EXCEPT ![c] = 1]
    /\ uid' = [uid EXCEPT ![c] = 0]
    /\ tries' = [tries EXCEPT ![c] = 0]
    /\ older' = [older EXCEPT ![c] = {}]

\* The loop starts over, at most three times.
Again(c, step) ==
    IF tries[c] + 1 < Tries
    THEN /\ pc' = [pc EXCEPT ![c] = step]
         /\ tries' = [tries EXCEPT ![c] = @ + 1]
         /\ UNCHANGED <<arg, uid, older>>
    ELSE Ended(c)

Begins(c, g, step) ==
    /\ pc[c] = "idle"
    /\ pc' = [pc EXCEPT ![c] = step]
    /\ arg' = [arg EXCEPT ![c] = g]
    /\ UNCHANGED <<uid, tries, older>>

DeleteJob(g) == job' = [job EXCEPT ![g] = IF @ = "live" THEN "terminating" ELSE @]

-----------------------------------------------------------------------------
\* provision.

\* prepare refuses a session whose authority is revoked.
StartProvision(c, g) ==
    /\ g <= gen
    /\ g \notin revoked
    /\ Begins(c, g, "fences")
    /\ UNCHANGED <<cluster, journal, history, faults>>

\* check_fences: no newer occupant has an anchor or a tombstone.
CheckFences(c) ==
    /\ pc[c] = "fences"
    /\ IF \E h \in Gens : h > arg[c] /\ cm[h] # "none" THEN Ended(c) ELSE Goto(c, "anchor")
    /\ UNCHANGED <<cluster, journal, history, faults>>

\* ensure_anchor: take the active one, or create it when the name is free.
GetAnchor(c) ==
    /\ pc[c] = "anchor"
    /\ CASE cm[arg[c]] = "none" -> Goto(c, "create")
         [] cm[arg[c]] = "tombstone" -> Ended(c)
         [] cm[arg[c]] = "active" ->
              /\ pc' = [pc EXCEPT ![c] = "token"]
              /\ uid' = [uid EXCEPT ![c] = made[arg[c]]]
              /\ UNCHANGED <<arg, tries, older>>
    /\ UNCHANGED <<cluster, journal, history, faults>>

CreateAnchor(c) ==
    LET g == arg[c]
    IN  /\ pc[c] = "create"
        /\ IF cm[g] = "none"
           THEN /\ cm' = [cm EXCEPT ![g] = "active"]
                /\ made' = [made EXCEPT ![g] = @ + 1]
                /\ pc' = [pc EXCEPT ![c] = "token"]
                /\ uid' = [uid EXCEPT ![c] = made[g] + 1]
                /\ UNCHANGED <<arg, tries, older>>
           ELSE Again(c, "anchor") /\ UNCHANGED <<cm, made>>
        /\ UNCHANGED <<secret, owner, job, journal, history, faults>>

\* Mutant: the issuer does not look at the session.
IssueAnyway(g) == TRUE

\* issue_campus_broker_token: only while the session may run.
MayIssue(g) == g \notin revoked

\* ensure_broker_token: keep this anchor's Secret until it is due, else issue a
\* token for it.
EnsureToken(c) ==
    LET g == arg[c]
    IN  /\ pc[c] = "token"
        /\ \/ secret[g] = uid[c] /\ Goto(c, "job")
           \/ secret[g] \in {0, uid[c]} /\ MayIssue(g) /\ Goto(c, "put")
           \/ secret[g] \notin {0, uid[c]} /\ Ended(c)
           \/ ~MayIssue(g) /\ Ended(c)
        /\ UNCHANGED <<cluster, journal, history, faults>>

\* Create the Secret, or replace the one a concurrent provision wrote.
PutToken(c) ==
    /\ pc[c] = "put"
    /\ secret' = [secret EXCEPT ![arg[c]] = uid[c]]
    /\ Goto(c, "job")
    /\ UNCHANGED <<cm, made, owner, job, journal, history, faults>>

\* existing_job: a Job of this operation is taken as it is.
FindJob(c) ==
    /\ pc[c] = "job"
    /\ Goto(c, IF job[arg[c]] = "none" THEN "submit" ELSE "recheck")
    /\ UNCHANGED <<cluster, journal, history, faults>>

\* The slot's quota admits one Job; a refused create looks again for its own.
SubmitJob(c) ==
    LET g == arg[c]
    IN  /\ pc[c] = "submit"
        /\ IF \A h \in Gens : job[h] = "none"
           THEN /\ job' = [job EXCEPT ![g] = "live"]
                /\ owner' = [owner EXCEPT ![g] = uid[c]]
                /\ Goto(c, "recheck")
           ELSE /\ IF job[g] = "none" THEN Ended(c) ELSE Goto(c, "recheck")
                /\ UNCHANGED <<job, owner>>
        /\ UNCHANGED <<cm, made, secret, journal, history, faults>>

\* Ready or in progress, if the anchor is still the one the Job was made for.
Recheck(c) ==
    /\ pc[c] = "recheck"
    /\ IF OwnerLives(arg[c], uid[c]) THEN Ended(c) ELSE Goto(c, "undo")
    /\ UNCHANGED <<cluster, journal, history, faults>>

UndoJob(c) ==
    /\ pc[c] = "undo"
    /\ DeleteJob(arg[c])
    /\ Ended(c)
    /\ UNCHANGED <<cm, made, secret, owner, journal, history, faults>>

-----------------------------------------------------------------------------
\* delete, called for a stopped session or for an orphan of an ended one.

StartDelete(c, g) ==
    /\ g \in revoked
    /\ Begins(c, g, "fence")
    /\ UNCHANGED <<cluster, journal, history, faults>>

\* Mutant: an active anchor is left where it is.
KeepAnchor(c) ==
    /\ pc[c] = "fence"
    /\ Goto(c, CASE cm[arg[c]] \in {"tombstone", "active"} -> "secrets"
                 [] cm[arg[c]] = "none" -> "bury")
    /\ UNCHANGED <<cluster, journal, history, faults>>

\* fence_deleted: read the record, delete it by name, write the tombstone.
FenceGet(c) ==
    /\ pc[c] = "fence"
    /\ Goto(c, CASE cm[arg[c]] = "tombstone" -> "secrets"
                 [] cm[arg[c]] = "active" -> "unanchor"
                 [] cm[arg[c]] = "none" -> "bury")
    /\ UNCHANGED <<cluster, journal, history, faults>>

Unanchor(c) ==
    /\ pc[c] = "unanchor"
    /\ cm' = [cm EXCEPT ![arg[c]] = "none"]
    /\ Goto(c, "bury")
    /\ UNCHANGED <<made, secret, owner, job, journal, history, faults>>

Bury(c) ==
    LET g == arg[c]
    IN  /\ pc[c] = "bury"
        /\ IF cm[g] = "none"
           THEN /\ cm' = [cm EXCEPT ![g] = "tombstone"]
                /\ fenced' = fenced \cup {g}
                /\ Goto(c, "secrets")
           ELSE Again(c, "fence") /\ UNCHANGED <<cm, fenced>>
        /\ UNCHANGED <<made, secret, owner, job, journal, told, faults>>

\* delete_in: the token first, then the Job and its Pods.
DeleteSecrets(c) ==
    /\ pc[c] = "secrets"
    /\ secret' = [secret EXCEPT ![arg[c]] = 0]
    /\ Goto(c, "jobs")
    /\ UNCHANGED <<cm, made, owner, job, journal, history, faults>>

DeleteJobs(c) ==
    /\ pc[c] = "jobs"
    /\ DeleteJob(arg[c])
    /\ Goto(c, "left")
    /\ UNCHANGED <<cm, made, secret, owner, journal, history, faults>>

\* In progress, unreachable or blocked while something is left.
ListJobs(c) ==
    /\ pc[c] = "left"
    /\ IF job[arg[c]] = "none" THEN Goto(c, "leftSecrets") ELSE Ended(c)
    /\ UNCHANGED <<cluster, journal, history, faults>>

ListSecrets(c) ==
    /\ pc[c] = "leftSecrets"
    /\ IF secret[arg[c]] = 0 THEN Goto(c, "tombstones") ELSE Ended(c)
    /\ UNCHANGED <<cluster, journal, history, faults>>

\* prune_tombstones: list the older ones, delete each by name, then answer.
ListTombstones(c) ==
    /\ pc[c] = "tombstones"
    /\ older' = [older EXCEPT ![c] = {h \in Gens : h < arg[c] /\ cm[h] = "tombstone"}]
    /\ pc' = [pc EXCEPT ![c] = "prune"]
    /\ UNCHANGED <<cluster, journal, history, arg, uid, tries, faults>>

Prune(c) ==
    /\ pc[c] = "prune"
    /\ \E h \in older[c] :
         /\ cm' = [cm EXCEPT ![h] = "none"]
         /\ older' = [older EXCEPT ![c] = @ \ {h}]
    /\ UNCHANGED <<made, secret, owner, job, journal, history, pc, arg, uid, tries, faults>>

AnswerDeleted(c) ==
    /\ pc[c] = "prune"
    /\ older[c] = {}
    /\ told' = told \cup {arg[c]}
    /\ Ended(c)
    /\ UNCHANGED <<cluster, journal, fenced, faults>>

-----------------------------------------------------------------------------
\* The journal, as far as it drives the provider.

\* Mutant: anchors are not inventoried.
OwnsWorkload(g) == job[g] # "none" \/ secret[g] # 0

\* list_owned: anchors, Jobs and Secrets; a tombstone is not a resource.
Owned(g) == cm[g] = "active" \/ job[g] # "none" \/ secret[g] # 0

\* confirm_teardown: a Deleted answer and an inventory without the workload.
ConfirmTeardown ==
    /\ gen \in told \ freed
    /\ ~Owned(gen)
    /\ freed' = freed \cup {gen}
    /\ UNCHANGED <<cluster, gen, revoked, history, call, faults>>

\* Admission hands the slot to its next occupant.
Occupy ==
    /\ gen < MaxGen
    /\ gen = 0 \/ gen \in freed
    /\ gen' = gen + 1
    /\ UNCHANGED <<cluster, revoked, freed, history, call, faults>>

\* The session is stopping: before any delete is begun for it.
Revoke ==
    /\ gen \in Gens \ revoked
    /\ revoked' = revoked \cup {gen}
    /\ UNCHANGED <<cluster, gen, freed, history, call, faults>>

-----------------------------------------------------------------------------
\* The cluster: garbage collection and the end of a deleted Job and its Pods.

CollectJob(g) ==
    /\ job[g] = "live"
    /\ ~OwnerLives(g, owner[g])
    /\ DeleteJob(g)
    /\ UNCHANGED <<cm, made, secret, owner, journal, history, call, faults>>

CollectSecret(g) ==
    /\ secret[g] # 0
    /\ ~OwnerLives(g, secret[g])
    /\ secret' = [secret EXCEPT ![g] = 0]
    /\ UNCHANGED <<cm, made, owner, job, journal, history, call, faults>>

JobGone(g) ==
    /\ job[g] = "terminating"
    /\ job' = [job EXCEPT ![g] = "none"]
    /\ UNCHANGED <<cm, made, secret, owner, journal, history, call, faults>>

\* The API server does not answer, or the worker dies between two calls.
CallFails(c) ==
    /\ pc[c] # "idle"
    /\ faults < MaxFaults
    /\ faults' = faults + 1
    /\ Ended(c)
    /\ UNCHANGED <<cluster, journal, history>>

-----------------------------------------------------------------------------
Init ==
    /\ cm = [g \in Gens |-> "none"]
    /\ made = [g \in Gens |-> 0]
    /\ secret = [g \in Gens |-> 0]
    /\ owner = [g \in Gens |-> 0]
    /\ job = [g \in Gens |-> "none"]
    /\ gen = 0 /\ revoked = {} /\ freed = {}
    /\ fenced = {} /\ told = {}
    /\ pc = [c \in Callers |-> "idle"]
    /\ arg = [c \in Callers |-> 1]
    /\ uid = [c \in Callers |-> 0]
    /\ tries = [c \in Callers |-> 0]
    /\ older = [c \in Callers |-> {}]
    /\ faults = 0

Provisioning(c) ==
    \/ CheckFences(c) \/ GetAnchor(c) \/ CreateAnchor(c) \/ EnsureToken(c)
    \/ PutToken(c) \/ FindJob(c) \/ SubmitJob(c) \/ Recheck(c) \/ UndoJob(c)

Deleting(c) ==
    \/ FenceGet(c) \/ Unanchor(c) \/ Bury(c) \/ DeleteSecrets(c) \/ DeleteJobs(c)
    \/ ListJobs(c) \/ ListSecrets(c) \/ ListTombstones(c) \/ Prune(c) \/ AnswerDeleted(c)

Cluster(g) == CollectJob(g) \/ CollectSecret(g) \/ JobGone(g)

Next ==
    \/ \E c \in Callers :
          \/ \E g \in Gens : StartProvision(c, g) \/ StartDelete(c, g)
          \/ Provisioning(c) \/ Deleting(c) \/ CallFails(c)
    \/ ConfirmTeardown \/ Occupy \/ Revoke
    \/ \E g \in Gens : Cluster(g)

\* A call that was begun goes on; the cluster collects and ends what it must;
\* the reconciler deletes what a stopped session still owns, and the janitor
\* what an ended one does.
Fairness ==
    /\ \A c \in Callers : WF_vars(Provisioning(c)) /\ WF_vars(Deleting(c))
    /\ \A g \in Gens :
         /\ WF_vars(Cluster(g))
         /\ SF_vars(Owned(g) /\ \E c \in Callers : StartDelete(c, g))

Spec == Init /\ [][Next]_vars /\ Fairness

-----------------------------------------------------------------------------
\* Properties.

Steps == {"idle", "fences", "anchor", "create", "token", "put", "job", "submit", "recheck",
          "undo", "fence", "unanchor", "bury", "secrets", "jobs", "left", "leftSecrets",
          "tombstones", "prune"}

\* Steps of a provision that found its anchor, that got its token, and of a
\* delete before and after the tombstone.
Anchored == {"token", "put", "job", "submit", "recheck", "undo"}
PastToken == Anchored \ {"token"}
Fencing == {"fence", "unanchor", "bury"}
PastFence == {"secrets", "jobs", "left", "leftSecrets", "tombstones", "prune"}

\* The records, the objects and each call's step are well formed, and a
\* provision that found its anchor knows one that was created.
TypeOK ==
    /\ cm \in [Gens -> {"none", "active", "tombstone"}]
    /\ made \in [Gens -> Nat] /\ secret \in [Gens -> Nat] /\ owner \in [Gens -> Nat]
    /\ job \in [Gens -> {"none", "live", "terminating"}]
    /\ gen \in 0..MaxGen
    /\ revoked \subseteq Gens /\ freed \subseteq Gens
    /\ fenced \subseteq Gens /\ told \subseteq Gens
    /\ pc \in [Callers -> Steps]
    /\ arg \in [Callers -> Gens] /\ uid \in [Callers -> Nat]
    /\ tries \in [Callers -> Nat] /\ older \in [Callers -> SUBSET Gens]
    /\ faults \in 0..MaxFaults
    /\ \A c \in Callers : pc[c] \in Anchored => uid[c] \in 1..made[arg[c]]

\* How far the journal is ahead of the provider: an occupancy is torn down
\* before the next begins, told before it is freed, fenced before it is told,
\* and revoked before it is fenced.
Ordered ==
    /\ \A g \in Gens : g < gen => g \in freed
    /\ freed \subseteq told /\ told \subseteq fenced /\ fenced \subseteq revoked
    /\ \A g \in Gens : g \in revoked \/ cm[g] # "none" => g <= gen
    /\ \A g \in Gens : cm[g] = "tombstone" => g \in fenced
    /\ \A c \in Callers : pc[c] # "idle" => arg[c] <= gen
    /\ \A c \in Callers :
          /\ pc[c] \in Fencing => arg[c] \in revoked
          /\ pc[c] \in PastFence => arg[c] \in fenced

\* An anchor that a stale provision writes for a fenced workload is barren:
\* nothing in the slot, and no call past its token, refers to it.
Barren ==
    \A g \in fenced : cm[g] = "active" =>
       /\ secret[g] # made[g] /\ owner[g] # made[g]
       /\ \A c \in Callers : arg[c] = g /\ pc[c] \in PastToken => uid[c] # made[g]

\* Every owner was an anchor once.
Counted ==
    /\ \A g \in Gens : secret[g] <= made[g] /\ owner[g] <= made[g]
    /\ \A g \in Gens : cm[g] = "active" => made[g] > 0

\* The inductive invariant.
IInv == TypeOK /\ Ordered /\ Barren /\ Counted

\* Only the slot's occupant runs: an ended session's Job or broker token Secret
\* may still appear when a stale worker creates it late, but never under a live
\* anchor, so the garbage collector removes it.
OnlyTheOccupantRuns ==
    \A g \in Gens : LiveJob(g) \/ LiveSecret(g) => g = gen /\ g \notin freed

\* What the slot holds of an ended session goes away for good: late Jobs and
\* Secrets are collected, and an anchor that a stale provision wrote over a
\* pruned tombstone is found and deleted by the janitor.
TornDownStaysClean ==
    \A g \in Gens :
       <>[](g \in freed => cm[g] # "active" /\ job[g] = "none" /\ secret[g] = 0)

\* The workloads that run under a live anchor.
Live == {g \in Gens : LiveJob(g)}

Contract == INSTANCE CampusContract WITH Workloads <- Gens, live <- Live

\* The provider implements its contract, a workload counting as alive when its
\* Job has a live anchor.
ImplementsContract == Contract!Spec
=============================================================================
