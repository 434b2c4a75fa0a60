---------------------------- MODULE AcmeManager ----------------------------
(***************************************************************************)
(* The ACME manager (node/internal/acme/acme.go): it keeps an entry for    *)
(* every domain whose certificate it was ever asked to manage, obtains     *)
(* certificates through certmagic, and renews each domain from a timer     *)
(* that every issuance, deployment and renewal arms anew.                  *)
(*                                                                         *)
(* Calls from deployments and from the RPC hold m.mu from beginning to     *)
(* end, issuance included, so each is one action.  A renewal is three      *)
(* critical sections -- read the entry, issue, write back -- and anything  *)
(* may happen in between.  Time is left out: a pending timer may fire at   *)
(* any moment, so NextRenewAt does not appear.                             *)
(***************************************************************************)
EXTENDS Naturals

CONSTANTS
    Domain, NoDomain,
    Entry,    \* declared part of a ManagedCertificate: email, CA, challenge, port
    NoEntry,
    CA,
    CaOf,     \* the CA an entry names
    Timer,    \* time.Timer values, reused once their callback has returned
    NoTimer,
    Torn      \* a state file that cannot be decoded

ASSUME CaAssumption == CaOf \in [Entry -> CA]
ASSUME NoDomainAssumption == NoDomain \notin Domain
ASSUME NoEntryAssumption == NoEntry \notin Entry
ASSUME NoTimerAssumption == NoTimer \notin Timer
ASSUME TornAssumption == Torn \notin [Domain -> Entry \cup {NoEntry}]

VARIABLES
    up,        \* the node process runs
    managed,   \* m.managed
    timers,    \* m.timers
    task,      \* task[t]: timer t, then the runScheduledRenewal it has started
    stored,    \* certmagic's storage, by domain and CA
    disk,      \* what acme_state.json decodes to
    declared,  \* observer: what was last asked for a domain
    raced      \* observer: domains declared anew while a renewal was under way
               \* between reading the entry and issuing

vars == <<up, managed, timers, task, stored, disk, declared, raced>>

(***************************************************************************)
(* A timer is "pending", then "fired" (its callback waits for the mutex),  *)
(* "issuing" (the entry has been read), and "renewed" or "failed" (the     *)
(* outcome is known and not yet written back).                             *)
(***************************************************************************)
Phase == {"free", "pending", "fired", "issuing", "renewed", "failed"}

Task == [phase : Phase, domain : Domain \cup {NoDomain}, entry : Entry \cup {NoEntry}]

Free == [phase |-> "free", domain |-> NoDomain, entry |-> NoEntry]
Pending(d) == [phase |-> "pending", domain |-> d, entry |-> NoEntry]

\* A stored certificate falls due when its renewal time comes.
Age == {"none", "fresh", "due"}

Entries == [Domain -> Entry \cup {NoEntry}]
NoEntries == [d \in Domain |-> NoEntry]

TypeOK ==
    /\ up \in BOOLEAN
    /\ managed \in Entries
    /\ timers \in [Domain -> Timer \cup {NoTimer}]
    /\ task \in [Timer -> Task]
    /\ stored \in [Domain -> [CA -> Age]]
    /\ disk \in Entries \cup {Torn}
    /\ declared \in Entries
    /\ raced \subseteq Domain

Init ==  \* NewManager on a node that never ran
    /\ up = TRUE
    /\ managed = NoEntries
    /\ timers = [d \in Domain |-> NoTimer]
    /\ task = [t \in Timer |-> Free]
    /\ stored = [d \in Domain |-> [ca \in CA |-> "none"]]
    /\ disk = NoEntries
    /\ declared = NoEntries
    /\ raced = {}

-----------------------------------------------------------------------------
(***************************************************************************)
(* Slips: plausible mistakes in the definitions below, used by none.       *)
(***************************************************************************)
LeavesOldTimer(tasks, d, t) == [tasks EXCEPT ![t] = Pending(d)]
ArmsOnlyOnce(tasks, d, t) ==
    IF timers[d] = NoTimer THEN [tasks EXCEPT ![t] = Pending(d)] ELSE tasks
RestoresNoTimer(armed) == [t \in Timer |-> Free]
WritesBackWhatItRead(t) == [managed EXCEPT ![task[t].domain] = task[t].entry]

-----------------------------------------------------------------------------
\* scheduleLocked: d's timer is stopped, unless it has fired, and t armed.
Scheduled(tasks, d, t) ==
    [u \in Timer |->
        IF u = t THEN Pending(d)
        ELSE IF u = timers[d] /\ tasks[u].phase = "pending" THEN Free
        ELSE tasks[u]]

Schedule(tasks, d) ==
    \E t \in {u \in Timer : tasks[u].phase = "free"} :
        /\ task' = Scheduled(tasks, d, t)
        /\ timers' = [timers EXCEPT ![d] = t]

\* saveStateLocked, its error ignored: nothing written, all of it, or a file
\* cut short.
Save(entries) == disk' \in {disk, entries, Torn}

\* ObtainCertSync when it succeeds.  It does nothing when the storage has a
\* certificate of the domain from that CA.
Obtained(d, e) ==
    [stored EXCEPT ![d][CaOf[e]] = IF @ = "none" THEN "fresh" ELSE @]

\* issueWithLogsLocked, the certificate having been obtained and parsed; the
\* tasks are those of m.timers at that point.
Issued(d, e, tasks) ==
    /\ stored' = Obtained(d, e)
    /\ managed' = [managed EXCEPT ![d] = e]
    /\ Schedule(tasks, d)
    /\ Save(managed')

\* issueWithLogsLocked with an error, or with a certificate that cannot be
\* parsed: nothing is managed or scheduled.
NotIssued(d, e) ==
    /\ stored' \in {stored, Obtained(d, e)}
    /\ UNCHANGED <<managed, disk>>

Renewing(d) == \E t \in Timer : task[t].phase = "issuing" /\ task[t].domain = d

Declare(d, e) ==
    /\ declared' = [declared EXCEPT ![d] = e]
    /\ raced' = IF Renewing(d) THEN raced \cup {d} ELSE raced \ {d}

-----------------------------------------------------------------------------
(***************************************************************************)
(* Calls.                                                                  *)
(***************************************************************************)

\* EnsureManagedCertificate: a certificate is obtained only if none can be
\* read for the CA.  (A readable one is given a renewal time at least a
\* minute ahead, so the second test for issuing never succeeds.)  However
\* that goes, the entry is managed and scheduled.
Ensure(d, e) ==
    /\ up
    /\ stored' \in IF stored[d][CaOf[e]] = "none" THEN {stored, Obtained(d, e)} ELSE {stored}
    /\ managed' = [managed EXCEPT ![d] = e]
    /\ Schedule(task, d)
    /\ Save(managed')
    /\ Declare(d, e)
    /\ UNCHANGED up

\* The IssueAcmeCertificate RPC.
IssueNow(d, e) ==
    /\ up
    /\ \/ /\ Issued(d, e, task)
          /\ Declare(d, e)
       \/ /\ NotIssued(d, e)
          /\ UNCHANGED <<timers, task, declared, raced>>
    /\ UNCHANGED up

-----------------------------------------------------------------------------
(***************************************************************************)
(* A scheduled renewal.                                                    *)
(***************************************************************************)
Fire(t) ==
    /\ task[t].phase = "pending"
    /\ task' = [task EXCEPT ![t].phase = "fired"]
    /\ UNCHANGED <<up, managed, timers, stored, disk, declared, raced>>

\* The first critical section of runScheduledRenewal.
Read(t) ==
    /\ task[t].phase = "fired"
    /\ LET entry == managed[task[t].domain]
       IN  task' = [task EXCEPT ![t] =
                       IF entry = NoEntry THEN Free
                       ELSE [@ EXCEPT !.phase = "issuing", !.entry = entry]]
    /\ UNCHANGED <<up, managed, timers, stored, disk, declared, raced>>

\* The second: IssueWithLogs, with the entry as it was read.
Issue(t) ==
    /\ task[t].phase = "issuing"
    /\ \/ Issued(task[t].domain, task[t].entry, [task EXCEPT ![t].phase = "renewed"])
       \/ /\ NotIssued(task[t].domain, task[t].entry)
          /\ task' = [task EXCEPT ![t].phase = "failed"]
          /\ UNCHANGED timers
    /\ UNCHANGED <<up, declared, raced>>

\* What the third writes to m.managed: the current entry, with times and an
\* error text that are left out here.
WrittenBack(t) == managed

\* The third.
Settle(t) ==
    /\ task[t].phase \in {"renewed", "failed"}
    /\ managed' = WrittenBack(t)
    /\ Schedule([task EXCEPT ![t] = Free], task[t].domain)
    /\ Save(managed')
    /\ UNCHANGED <<up, stored, declared, raced>>

-----------------------------------------------------------------------------
(***************************************************************************)
(* The environment.                                                        *)
(***************************************************************************)
FallsDue(d, ca) ==
    /\ stored[d][ca] = "fresh"
    /\ stored' = [stored EXCEPT ![d][ca] = "due"]
    /\ UNCHANGED <<up, managed, timers, task, disk, declared, raced>>

\* Only the files survive; the state file may have been being written.
Crash ==
    /\ up
    /\ up' = FALSE
    /\ managed' = NoEntries
    /\ timers' = [d \in Domain |-> NoTimer]
    /\ task' = [t \in Timer |-> Free]
    /\ disk' \in {disk, Torn}
    /\ declared' = NoEntries
    /\ raced' = {}
    /\ UNCHANGED stored

\* loadState: an unreadable file is no file.
Loaded == IF disk = Torn THEN NoEntries ELSE disk

\* restoreSchedules, armed giving each loaded domain its timer.
Restored(armed) ==
    [t \in Timer |->
        IF \E d \in DOMAIN armed : armed[d] = t
        THEN Pending(CHOOSE d \in DOMAIN armed : armed[d] = t)
        ELSE Free]

\* NewManager.  The deployed configuration is restored next, by Ensure.
Restart ==
    /\ ~up
    /\ up' = TRUE
    /\ managed' = Loaded
    /\ \E armed \in [{d \in Domain : Loaded[d] # NoEntry} -> Timer] :
          /\ \A d, e \in DOMAIN armed : armed[d] = armed[e] => d = e
          /\ task' = Restored(armed)
          /\ timers' = [d \in Domain |-> IF d \in DOMAIN armed THEN armed[d] ELSE NoTimer]
    /\ declared' = Loaded
    /\ UNCHANGED <<stored, disk, raced>>

-----------------------------------------------------------------------------
Next ==
    \/ \E d \in Domain, e \in Entry : Ensure(d, e) \/ IssueNow(d, e)
    \/ \E t \in Timer : Fire(t) \/ Read(t) \/ Issue(t) \/ Settle(t)
    \/ \E d \in Domain, ca \in CA : FallsDue(d, ca)
    \/ Crash
    \/ Restart

Spec == Init /\ [][Next]_vars

(***************************************************************************)
(* A domain's timer fires in the end -- calls that arm it anew leave it    *)
(* the minute it needs sooner or later -- and a callback gets the mutex:   *)
(* no call holds it for ever.  Calls, crashes and restarts need not come.  *)
(***************************************************************************)
Fairness ==
    /\ \A d \in Domain : WF_vars(\E t \in Timer : task[t].domain = d /\ Fire(t))
    /\ \A t \in Timer : WF_vars(Read(t) \/ Issue(t) \/ Settle(t))

FairSpec == Spec /\ Fairness

-----------------------------------------------------------------------------
(***************************************************************************)
(* Properties.                                                             *)
(***************************************************************************)

\* A domain has one pending timer at most, the one in m.timers: whatever
\* deployments and renewals overlap, a domain is not renewed twice over.
OnePendingTimer ==
    \A t \in Timer : task[t].phase = "pending" => timers[task[t].domain] = t

\* A managed domain has a pending timer or a renewal under way, which will arm
\* one: no failure, overlap or restart lets its certificate run out unseen.
NeverForgotten ==
    \A d \in Domain : managed[d] # NoEntry =>
        \E t \in Timer : task[t].phase # "free" /\ task[t].domain = d

\* What is managed for a domain is what was asked for last, unless that was
\* asked while a renewal was between reading the old entry and issuing, which
\* then stores the old entry.
DeclaredUnlessRaced ==
    \A d \in Domain \ raced : managed[d] = declared[d]

\* A managed domain is renewed again and again while the node runs.
RenewalsGoOn ==
    \A d \in Domain :
        managed[d] # NoEntry ~>
            \/ ~up
            \/ \E t \in Timer : task[t].phase \in {"renewed", "failed"} /\ task[t].domain = d

\* "Auto-renew scheduled" (acme.go:299): a renewal that succeeds leaves a
\* certificate that is not due for renewal.
RenewalRenews ==
    [][\A t \in Timer :
          (task[t].phase = "issuing" /\ task'[t].phase = "renewed") =>
              stored'[task[t].domain][CaOf[task[t].entry]] = "fresh"]_vars
=============================================================================
