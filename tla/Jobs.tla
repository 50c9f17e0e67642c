-------------------------------- MODULE Jobs --------------------------------
(* The job tools of the molq plane: what they open and close, and where what *)
(* they submit and cancel goes. The job store, submitors and schedulers are  *)
(* molq's, modelled from how the provider uses them.                         *)
EXTENDS Integers, Sequences, SequencesExt, FiniteSetsExt

CONSTANTS
    Calls,          \* the calls in progress at one time
    Ids,            \* of jobs
    Schedulers, Clusters,
    Profiles,       \* Profiles[p]: [scheduler, cluster], from molq's config
    SshHosts,       \* the clusters that are hosts of the SSH config
    Tails,          \* how many lines of a log are asked for
    None, Local,
    MaxFaults,      \* bound: calls of molq that raise
    MaxLines,       \* bound: lines a job writes
    MaxCalls        \* bound: tool calls made

JobsAssumption ==
    /\ IsFiniteSet(Calls)
    /\ SshHosts \subseteq Clusters /\ Local \in Schedulers /\ None \notin Clusters \cup Schedulers
    /\ \A s \in Schedulers : <<"cli", s>> # None
    /\ \A p \in DOMAIN Profiles : Profiles[p].scheduler \in Schedulers /\ Profiles[p].cluster \in Clusters
    /\ Tails \subseteq Nat \cup {None}
    /\ MaxFaults \in Nat /\ MaxLines \in Nat /\ MaxCalls \in Nat

VARIABLES
    call,       \* call[c]: what it is doing
    handles,    \* stores and submitors open
    dropped,    \* opens that failed
    records,    \* the job store
    target,     \* target[j]: where the job was submitted
    live,       \* live[j]: its state there
    log,        \* log[j]: how many lines its output has
    faults, made
vars == <<call, handles, dropped, records, target, live, log, faults, made>>
upstream == <<records, target, live, log>>

Idle == [op |-> "none", at |-> "idle"]
Names == Clusters \cup {None}
Requests ==
    [op : {"submit", "queue"}, scheduler : Schedulers, cluster : Names, profile : {None} \cup DOMAIN Profiles]
    \cup [op : {"get", "plain", "cancel"}, job : Ids] \cup [op : {"logs"}, job : Ids, tail : Tails]
    \cup [op : {"list"}] \cup [op : {"destinations"}, ssh : BOOLEAN]

Submitted == DOMAIN records

------------------------------------------------------------------------------
(* The target of a submitor: a profile's own cluster, the local machine, or  *)
(* an SSH host if there is one of that name.                                 *)
Label(scheduler, cluster) == IF cluster = None THEN <<"cli", scheduler>> ELSE cluster
Target(scheduler, cluster, profile) ==
    IF profile # None
    THEN <<"cluster", IF cluster = None THEN Profiles[profile].cluster ELSE cluster, scheduler>>
    ELSE IF scheduler # Local /\ Label(scheduler, cluster) \in SshHosts
    THEN <<"ssh", Label(scheduler, cluster), scheduler>>
    ELSE <<"cluster", Label(scheduler, cluster), scheduler>>

ClusterOf(r) ==
    IF r.profile # None /\ r.cluster = None THEN Profiles[r.profile].cluster
    ELSE Label(r.scheduler, r.cluster)

RecordOf(r) == [scheduler |-> r.scheduler, cluster |-> ClusterOf(r), state |-> "running"]
Mismatch(r) == r.profile # None /\ Profiles[r.profile].scheduler # r.scheduler

(* The store outlives a server: it may hold a job that an earlier one        *)
(* submitted.                                                                *)
Init ==
    /\ call = [c \in Calls |-> Idle] /\ handles = 0 /\ dropped = 0 /\ faults = 0 /\ made = 0
    /\ \E jobs \in {{}} \cup {{j} : j \in Ids}, r \in {q \in Requests : q.op = "submit"} :
        /\ ~Mismatch(r)
        /\ records = [j \in jobs |-> RecordOf(r)]
        /\ target = [j \in jobs |-> Target(r.scheduler, r.cluster, r.profile)]
        /\ live = [j \in jobs |-> "running"] /\ log = [j \in jobs |-> 0]

(* A submit or a cancel that the settings do not allow, when they are read,  *)
(* is refused, and so is a call whose arguments are: it opens nothing.       *)
Begin(c) ==
    /\ call[c].at = "idle" /\ made < MaxCalls /\ made' = made + 1
    /\ \E allowed, valid \in BOOLEAN : \E r \in Requests :
        call' = IF (r.op \in {"submit", "cancel"} /\ ~allowed) \/ ~valid THEN call
                ELSE [call EXCEPT ![c] = [op |-> r.op, ok |-> TRUE, request |-> r,
                  at |-> IF r.op \in {"list", "destinations"} THEN r.op
                         ELSE IF r.op \in {"submit", "queue"} THEN "open" ELSE "lookup"]]
    /\ UNCHANGED <<handles, dropped, upstream, faults>>

FailedCall(c) == [call EXCEPT ![c] = Idle]

(* list_jobs opens the store and closes it whatever happens. *)
List(c) ==
    /\ call[c].at = "list" /\ call' = [call EXCEPT ![c].at = "done"]
    /\ UNCHANGED <<handles, dropped, upstream, faults, made>>

(* The profiles of the configuration and the hosts of the SSH config: one     *)
(* that cannot be read is a row that says so.                                *)
Rows(ssh) ==
    {<<"profile", p>> : p \in DOMAIN Profiles} \cup (IF ssh THEN {<<"ssh", h>> : h \in SshHosts} ELSE {})
ListDestinations(c) ==
    /\ call[c].at = "destinations"
    /\ \E rows \in {Rows(call[c].request.ssh)}
            \cup {Rows(FALSE) \cup {<<"error", None>>} : b \in {TRUE} \cap {call[c].request.ssh}} :
        call' = [call EXCEPT ![c] = [op |-> "destinations", at |-> "done", ok |-> TRUE, rows |-> rows]]
    /\ UNCHANGED <<handles, dropped, upstream, faults, made>>

(* The record of a job says which submitor to open for it. *)
LookupDefault(c) ==
    /\ call[c].at = "lookup"
    /\ LET j == call[c].request.job IN
       call' = IF j \notin Submitted THEN FailedCall(c)
               ELSE IF call[c].op = "plain" THEN [call EXCEPT ![c].at = "done"]
               ELSE [call EXCEPT ![c].at = "open", ![c].request =
                        [op |-> @.op, job |-> j, scheduler |-> records[j].scheduler,
                         cluster |-> None, profile |-> None,
                         tail |-> IF @.op = "logs" THEN @.tail ELSE None]]
    /\ UNCHANGED <<handles, dropped, upstream, faults, made>>

Lookup(c) ==
    /\ call[c].at = "lookup"
    /\ LET j == call[c].request.job IN
       call' = IF j \notin Submitted THEN FailedCall(c)
               ELSE IF call[c].op = "plain" THEN [call EXCEPT ![c].at = "done"]
               ELSE [call EXCEPT ![c].at = "open", ![c].request =
                        [op |-> @.op, job |-> j, scheduler |-> records[j].scheduler,
                         cluster |-> records[j].cluster, profile |-> None,
                         tail |-> IF @.op = "logs" THEN @.tail ELSE None]]
    /\ UNCHANGED <<handles, dropped, upstream, faults, made>>

(* The store is opened first. A profile of another scheduler is refused, as  *)
(* anything may be that molq is asked: then the store stays open.            *)
OpenSubmitor(c) ==
    /\ call[c].at = "open" /\ ~Mismatch(call[c].request)
    /\ handles' = handles + 1 /\ call' = [call EXCEPT ![c].at = "act"]
    /\ UNCHANGED <<dropped, upstream, faults, made>>

OpenFails(c) ==
    /\ call[c].at = "open" /\ (Mismatch(call[c].request) \/ faults < MaxFaults)
    /\ faults' = IF Mismatch(call[c].request) THEN faults ELSE faults + 1
    /\ handles' = handles + 1 /\ dropped' = dropped + 1 /\ call' = FailedCall(c)
    /\ UNCHANGED <<upstream, made>>

TargetOf(c) ==
    LET r == call[c].request IN Target(r.scheduler, r.cluster, r.profile)

Reconciled == [j \in Submitted |-> [records[j] EXCEPT !.state = live[j]]]

To(c, at) == [call EXCEPT ![c].at = at]

Submit(c) ==
    /\ call[c].at = "act" /\ call[c].op = "submit" /\ Ids \ Submitted # {}
    /\ LET j == CHOOSE i \in Ids : i \notin Submitted
           r == call[c].request
           new == Submitted \cup {j} IN
       /\ records' = [i \in new |-> IF i = j THEN RecordOf(r) ELSE records[i]]
       /\ target' = [i \in new |-> IF i = j THEN TargetOf(c) ELSE target[i]]
       /\ live' = [i \in new |-> IF i = j THEN "running" ELSE live[i]]
       /\ log' = [i \in new |-> IF i = j THEN 0 ELSE log[i]]
       /\ call' = [call EXCEPT ![c].at = "read",
                      ![c].request = [op |-> "submit", job |-> j]]
    /\ UNCHANGED <<handles, dropped, faults, made>>

(* What is cancelled is the job with that id at the submitor's target. *)
Cancel(c) ==
    /\ call[c].at = "act" /\ call[c].op = "cancel"
    /\ LET j == call[c].request.job IN
       /\ live' = IF target[j] = TargetOf(c) /\ live[j] = "running"
                  THEN [live EXCEPT ![j] = "cancelled"] ELSE live
       /\ records' = [records EXCEPT ![j].state = IF @ = "running" THEN "cancelled" ELSE @]
    /\ call' = To(c, "read")
    /\ UNCHANGED <<handles, dropped, target, log, faults, made>>

(* get_job and job_logs reconcile every record unless asked not to. *)
Refresh(c) ==
    /\ call[c].at = "act" /\ call[c].op \in {"get", "logs"} /\ call' = To(c, "read")
    /\ records' \in {records, Reconciled}
    /\ UNCHANGED <<handles, dropped, target, live, log, faults, made>>

Queue(c) ==
    /\ call[c].at = "act" /\ call[c].op = "queue" /\ call' = To(c, "close")
    /\ UNCHANGED <<handles, dropped, upstream, faults, made>>

(* The record is read, and for job_logs then the streams: what was fetched,  *)
(* else a local file the record names, else nothing. Of it the last tail     *)
(* lines are returned, and of a tail of 0 all of them.                       *)
GetJob(c) ==
    /\ call[c].at = "read"
    /\ LET r == call[c].request IN
       call' = [call EXCEPT ![c] =
           [op |-> r.op, ok |-> TRUE, request |-> r, state |-> records[r.job].state,
            at |-> IF r.op = "logs" THEN "fetch" ELSE "close"]]
    /\ UNCHANGED <<handles, dropped, upstream, faults, made>>

FirstLines(n, tail) == IF tail = None THEN 1..n ELSE 1..(IF tail < n THEN tail ELSE n)
LastLines(n, tail) == IF tail = None THEN 1..n ELSE (IF tail < n /\ tail > 0 THEN n - tail + 1 ELSE 1)..n
FetchLogs(c) ==
    /\ call[c].at = "fetch"
    /\ \E missing \in BOOLEAN :
        LET r == call[c].request IN
        call' = [call EXCEPT ![c] =
            [op |-> "logs", at |-> "close", ok |-> TRUE, request |-> r, state |-> @.state, missing |-> missing,
             lines |-> IF missing THEN {} ELSE LastLines(log[r.job], r.tail)]]
    /\ UNCHANGED <<handles, dropped, upstream, faults, made>>

(* Anything a submitor is asked may raise, and so may the reading of a log    *)
(* or a tail below zero: the call fails and closes it.                       *)
Raises(c) ==
    /\ call[c].at \in {"act", "read", "fetch"} /\ faults < MaxFaults /\ faults' = faults + 1
    /\ call' = [call EXCEPT ![c] = [op |-> @.op, at |-> "close", ok |-> FALSE]]
    /\ UNCHANGED <<handles, dropped, upstream, made>>

CloseNever(c) ==
    /\ call[c].at = "close" /\ handles' = IF call[c].ok THEN handles - 1 ELSE handles
    /\ call' = [call EXCEPT ![c] = Idle]
    /\ UNCHANGED <<dropped, upstream, faults, made>>

Close(c) ==
    /\ call[c].at = "close" /\ handles' = handles - 1 /\ call' = [call EXCEPT ![c] = Idle]
    /\ UNCHANGED <<dropped, upstream, faults, made>>

Return(c) ==
    /\ call[c].at = "done" /\ call' = [call EXCEPT ![c] = Idle]
    /\ UNCHANGED <<handles, dropped, upstream, faults, made>>

------------------------------------------------------------------------------
(* Jobs run and end by themselves. *)
JobWrites(j) ==
    /\ live[j] = "running" /\ log[j] < MaxLines /\ log' = [log EXCEPT ![j] = @ + 1]
    /\ UNCHANGED <<call, handles, dropped, records, target, live, faults, made>>
JobEnds(j) ==
    /\ live[j] = "running" /\ live' = [live EXCEPT ![j] = "done"]
    /\ UNCHANGED <<call, handles, dropped, records, target, log, faults, made>>

Next ==
    \/ \E c \in Calls : \/ Begin(c) \/ List(c) \/ ListDestinations(c) \/ Lookup(c) \/ OpenSubmitor(c)
                        \/ OpenFails(c) \/ Submit(c) \/ Cancel(c) \/ Refresh(c) \/ Queue(c)
                        \/ GetJob(c) \/ FetchLogs(c) \/ Raises(c) \/ Close(c) \/ Return(c)
    \/ \E j \in Submitted : JobWrites(j) \/ JobEnds(j)

Spec == Init /\ [][Next]_vars

------------------------------------------------------------------------------
(* A store and its submitor are open while a call of a tool uses them and at *)
(* no other time: every way a call fails closes what it opened, but for the  *)
(* store of a submitor that could not be made, which nothing closes.         *)
HandlesCounted ==
    handles = Cardinality({c \in Calls : call[c].at \in {"act", "read", "fetch", "close"}}) + dropped

(* A cancel that did not fail reached the job where it was submitted, though *)
(* it goes to a target rebuilt from the record, which has no profile         *)
(* (molq/provider.py:438).  A job is shadowed whose profile put it on a       *)
(* cluster with the name of an SSH host: without the profile the name is     *)
(* taken for the host's (molq/provider.py:184).                               *)
Cancelled(c) == call[c].op = "cancel" /\ call[c].at = "close" /\ call[c].ok
Reached(c) == live[call[c].request.job] # "running"
Shadowed(t) == t[1] = "cluster" /\ t[2] \in SshHosts /\ t[3] # Local
CancelReaches ==
    \A c \in Calls : Cancelled(c) /\ ~Shadowed(target[call[c].request.job]) => Reached(c)

(* A cancel that did not fail reached its job, the shadowed ones included.   *)
CancelReachesAll == \A c \in Calls : Cancelled(c) => Reached(c)

(* Logs that say a job is over are the end of all it wrote: its state is     *)
(* read before its streams.  (A cancel of a shadowed job ends its record      *)
(* only.)                                                                    *)
LogsAreLast ==
    \A c \in Calls : call[c].op = "logs" /\ call[c].at = "close" /\ call[c].ok =>
        LET j == call[c].request.job n == log[j] tail == call[c].request.tail IN
        call[c].state # "running" /\ ~call[c].missing /\ tail # 0 /\ ~Shadowed(target[j]) =>
            call[c].lines = {i \in 1..n : tail = None \/ i > n - tail}
=============================================================================
