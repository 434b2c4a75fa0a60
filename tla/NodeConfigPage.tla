---------------------------- MODULE NodeConfigPage ----------------------------
(***************************************************************************)
(* Where the manager keeps what is done on a node's configuration page     *)
(* (src/manager/src/pages/node_config/mod.rs and storage.rs): the page's   *)
(* draft, the application's state with the node's revisions, LocalStorage, *)
(* and, in the desktop application, the files that                         *)
(* src/manager/src-tauri/src/main.rs writes.                               *)
(*                                                                         *)
(* LocalStorage is written at once. The desktop shell is asked to write    *)
(* and to read; its commands are not awaited and nothing orders them. What *)
(* it read is put into LocalStorage when it arrives, and into the state or *)
(* the draft if it differs from what they were when it was asked for.      *)
(*                                                                         *)
(* A draft is a number: 0 is the default draft of a node, and every edit   *)
(* makes the next one. DraftEditor says what edits do.                     *)
(***************************************************************************)
EXTENDS Naturals, Sequences, FiniteSets

CONSTANTS MaxEdits,     \* bound: edits of the draft
          MaxRevisions, \* bound: revisions of the node
          MaxOpened,    \* bound: how often the page is opened
          MaxStarts,    \* bound: how often the application is loaded
          MaxDeployments,   \* bound: deployments
          MaxWriteFaults,    \* bound: writes that fail or are torn
          MaxWaiting    \* bound: requests the user's next step is not kept waiting for

ASSUME PageAssumption ==
    /\ MaxEdits \in Nat /\ MaxRevisions \in Nat /\ MaxOpened \in Nat
    /\ MaxStarts \in Nat /\ MaxDeployments \in Nat
    /\ MaxWriteFaults \in Nat /\ MaxWaiting \in Nat

VARIABLES desktop,  \* the application runs in the desktop shell
          state,    \* the state in memory, as far as it is about the node
          page,     \* the configuration page
          local,    \* LocalStorage
          files,    \* the desktop application's files
          requests, \* what the desktop shell was asked and has not been heard of
          edits, opened, starts, faults, \* how many edits, openings, loads and faults there were
          deploys,  \* the deployments under way, and how many there were
          serves,   \* the draft the node runs
          latest,   \* the last thing done to the state, and to the draft
          doubtful, \* an answer of the desktop may undo it
          overtaken, \* a write may have been overtaken, or was not made
          confirmed \* the last deployment, if no other was under way with it

pageVars == <<desktop, state, page, local, files, requests, edits, opened, starts, faults, deploys, serves,
          latest, doubtful, overtaken, confirmed>>

stored   == <<local, files>>
counters == <<edits, opened, starts, faults>>
node     == <<deploys, serves, confirmed>>
judged   == <<latest, doubtful, overtaken>>

Absent == [kind |-> "absent"]
Torn   == [kind |-> "torn"]

\* ProxyNode: its revisions, the active one, and its configuration.
NewNode == [kind |-> "state", revisions |-> <<>>, active |-> 0, config |-> 0]
Draft(d) == [kind |-> "draft", draft |-> d]

Asked(what, r) == r.kind = "load" /\ r.what = what
Waits(what)  == \E r \in requests : Asked(what, r)
Writes(what) == {r \in requests : r.kind = "save" /\ r.what = what}

Save(what, content) == [kind |-> "save", what |-> what, content |-> content]
Load(what, seen, opening) ==
    [kind |-> "load", what |-> what, seen |-> seen, opening |-> opening, answer |-> Absent]

InDesktop(rs) == IF desktop THEN rs ELSE {}

\* persist_desktop_state and save_node_draft; the slip hands over what was there before.
SlipPersist(what, content) == InDesktop({Save(what, IF what = "state" THEN state ELSE content)})
Persist(what, content) == InDesktop({Save(what, content)})

\* Whether an answer may still undo what is done to the state or the draft now, and
\* whether its write may reach the file before one that is older.
Doubt(what) == doubtful' = [doubtful EXCEPT ![what] = Waits(what)]
Overtakes(what) == overtaken' = [overtaken EXCEPT ![what] = @ \/ Writes(what) # {}]

(***************************************************************************)
(* Starting, reloading and quitting the application.                       *)
(***************************************************************************)
PageInit ==
    /\ desktop \in BOOLEAN
    /\ local \in [state : {Absent, NewNode}, draft : {Absent}]
    /\ files = [state |-> IF desktop THEN local.state ELSE Absent, draft |-> Absent]
    /\ state = local.state
    /\ page = Absent
    /\ requests = InDesktop({Load("state", state, 0)})
    /\ edits = 0 /\ opened = 0 /\ starts = 1 /\ faults = 0
    /\ deploys = [made |-> 0, flying |-> {}] /\ serves = Absent /\ confirmed = Absent
    /\ latest = [state |-> state, draft |-> Absent]
    /\ doubtful = [state |-> FALSE, draft |-> FALSE]
    /\ overtaken = [state |-> FALSE, draft |-> FALSE]

WriteFault == faults < MaxWriteFaults /\ faults' = faults + 1

\* App: LocalStorage first, then the desktop's file. A file that is behind will win.
Started(pending) ==
    /\ starts < MaxStarts
    /\ starts' = starts + 1
    /\ state' = local.state
    /\ page' = Absent
    /\ requests' = pending \cup InDesktop({Load("state", local.state, 0)})
    /\ doubtful' = [doubtful EXCEPT !.state = desktop /\ (@ \/ pending # {} \/ files'.state # local.state)]
    /\ UNCHANGED <<desktop, local, edits, opened, node, latest>>

\* A reload leaves the shell running: it writes what it was asked to.
Reload ==
    /\ UNCHANGED <<files, faults, overtaken>>
    /\ Started({r \in requests : r.kind = "save"})

\* The process ends; what it was writing is torn, what it was asked to write is not written.
Quit ==
    /\ \/ UNCHANGED <<files, faults>>
       \/ WriteFault /\ \E r \in requests : r.kind = "save" /\ files' = [files EXCEPT ![r.what] = Torn]
    /\ overtaken' = [w \in {"state", "draft"} |-> overtaken[w] \/ Writes(w) # {}]
    /\ Started({})

(***************************************************************************)
(* The desktop shell.                                                      *)
(***************************************************************************)
WriteFile(r) ==
    /\ r.kind = "save"
    /\ files' = [files EXCEPT ![r.what] = r.content]
    /\ requests' = requests \ {r}
    /\ UNCHANGED <<desktop, state, page, local, counters, node, judged>>

\* The write fails, and nobody is told.
WriteFails(r) ==
    /\ r.kind = "save"
    /\ WriteFault
    /\ requests' = requests \ {r}
    /\ overtaken' = [overtaken EXCEPT ![r.what] = TRUE]
    /\ UNCHANGED <<desktop, state, page, stored, edits, opened, starts, node, latest, doubtful>>

ReadFile(r) ==
    /\ r.kind = "load" /\ r.answer = Absent
    /\ requests' = (requests \ {r}) \cup
                      (IF files[r.what] \in {Absent, Torn} THEN {}
                       ELSE {[r EXCEPT !.answer = files[r.what]]})
    /\ UNCHANGED <<desktop, state, page, stored, counters, node, judged>>

\* hydrate_desktop_state.
HydrateState(r) ==
    /\ Asked("state", r) /\ r.answer # Absent
    /\ local' = [local EXCEPT !.state = r.answer]
    /\ state' = IF r.seen # r.answer THEN r.answer ELSE state
    /\ requests' = requests \ {r}
    /\ UNCHANGED <<desktop, page, files, counters, node, judged>>

Applies(r) == page # Absent /\ page.opening = r.opening /\ r.seen # r.answer

\* hydrate_desktop_node_draft. A draft that changes is saved again by the page.
HydrateDraft(r) ==
    /\ Asked("draft", r) /\ r.answer # Absent
    /\ local' = [local EXCEPT !.draft = r.answer]
    /\ page' = IF Applies(r) THEN [page EXCEPT !.draft = r.answer.draft] ELSE page
    /\ requests' = (requests \ {r}) \cup
                      (IF page' # page THEN {Save("draft", r.answer)} ELSE {})
    /\ overtaken' = [overtaken EXCEPT !.draft = @ \/ (page' # page /\ Writes("draft") # {})]
    /\ UNCHANGED <<desktop, state, files, counters, node, latest, doubtful>>

(***************************************************************************)
(* The nodes page and the configuration page.                              *)
(***************************************************************************)
Room == Cardinality(requests) <= MaxWaiting

\* What State::save leaves in LocalStorage; the slip saves the state it was rendered with.
SlipKept(content) == [local EXCEPT !.state = state]
Kept(content) == [local EXCEPT !.state = content]

\* State::save and state.set.
SaveState(content) ==
    /\ Room
    /\ state' = content
    /\ latest' = [latest EXCEPT !.state = content]
    /\ Doubt("state") /\ Overtakes("state")
    /\ local' = Kept(content)
    /\ requests' = requests \cup Persist("state", content)

AddTheNode ==
    /\ state = Absent
    /\ SaveState(NewNode)
    /\ UNCHANGED <<desktop, page, files, counters, node>>

\* The draft the page opens with; the slip passes over LocalStorage.
SlipFirstDraft == IF state.config # 0 THEN state.config ELSE 0
FirstDraft ==
    IF local.draft # Absent THEN local.draft.draft
    ELSE IF state.config # 0 THEN state.config
    ELSE IF state.active # 0 THEN state.revisions[state.active] ELSE 0

\* The page opens: it saves the draft it opened with, then asks the desktop for its own.
OpenPage ==
    /\ Room
    /\ state # Absent /\ page = Absent /\ opened < MaxOpened
    /\ opened' = opened + 1
    /\ page' = [kind |-> "page", draft |-> FirstDraft, selected |-> state.active,
                opening |-> opened + 1]
    /\ local' = [local EXCEPT !.draft = Draft(FirstDraft)]
    /\ requests' = requests \cup InDesktop({Save("draft", Draft(FirstDraft)),
                                            Load("draft", Draft(FirstDraft), opened + 1)})
    /\ Overtakes("draft")
    /\ doubtful' = [doubtful EXCEPT !.draft =
                       desktop /\ (@ \/ Waits("draft") \/ Writes("draft") # {}
                                     \/ files.draft \notin {Absent, Torn, Draft(FirstDraft)})]
    /\ latest' = IF latest.draft = Absent THEN [latest EXCEPT !.draft = Draft(FirstDraft)] ELSE latest
    /\ UNCHANGED <<desktop, state, files, edits, starts, faults, node>>

ClosePage ==
    /\ Room
    /\ page # Absent
    /\ page' = Absent
    /\ UNCHANGED <<desktop, state, stored, requests, counters, node, judged>>

\* The draft is set, and saved by the page's effect.
SetDraft(d, k) ==
    /\ Room
    /\ page' = [page EXCEPT !.draft = d, !.selected = k]
    /\ local' = [local EXCEPT !.draft = Draft(d)]
    /\ requests' = requests \cup Persist("draft", Draft(d))
    /\ latest' = [latest EXCEPT !.draft = Draft(d)]
    /\ Doubt("draft") /\ Overtakes("draft")

Edit ==
    /\ page # Absent /\ edits < MaxEdits
    /\ edits' = edits + 1
    /\ SetDraft(edits + 1, page.selected)
    /\ UNCHANGED <<desktop, state, files, opened, starts, faults, node>>

\* on_revision_change: the draft is replaced by the revision's.
SelectRevision(k) ==
    /\ page # Absent /\ k # page.selected
    /\ LET d == state.revisions[k] IN
         IF d # page.draft THEN SetDraft(d, k)
         ELSE /\ page' = [page EXCEPT !.selected = k]
              /\ UNCHANGED <<local, requests, judged>>
    /\ UNCHANGED <<desktop, state, files, counters, node>>

\* persist_revision.
Persisted(d) == [state EXCEPT !.revisions = Append(@, d), !.active = Len(state.revisions) + 1,
                              !.config = d]

PersistRevision ==
    /\ page # Absent /\ state # Absent /\ Len(state.revisions) < MaxRevisions
    /\ SaveState(Persisted(page.draft))
    /\ page' = [page EXCEPT !.selected = Len(state.revisions) + 1]
    /\ UNCHANGED <<desktop, files, counters, node>>

(***************************************************************************)
(* Deployments: the draft as it is when the deployment is confirmed. No    *)
(* deployment waits for another, and the page may be closed.               *)
(***************************************************************************)
\* What is deployed; the slip takes the selected revision for it.
SlipDeployed == IF page.selected # 0 THEN state.revisions[page.selected] ELSE page.draft
Deployed == page.draft

Deploy ==
    /\ Room
    /\ page # Absent /\ state # Absent
    /\ deploys.made < MaxDeployments
    /\ deploys' = [made |-> deploys.made + 1,
                   flying |-> deploys.flying \cup {[number |-> deploys.made + 1, draft |-> Deployed]}]
    /\ confirmed' = IF deploys.flying = {} THEN Draft(page.draft) ELSE Absent
    /\ UNCHANGED <<desktop, state, page, stored, requests, counters, serves, judged>>

Arrives(d) ==
    /\ serves' = Draft(d.draft)
    /\ deploys' = [deploys EXCEPT !.flying = @ \ {d}]
    /\ UNCHANGED <<desktop, state, page, stored, requests, counters, confirmed, judged>>

Fails(d) ==
    /\ deploys' = [deploys EXCEPT !.flying = @ \ {d}]
    /\ confirmed' = Absent
    /\ UNCHANGED <<desktop, state, page, stored, requests, counters, serves, judged>>

ShellStep  == \E r \in requests : WriteFile(r) \/ WriteFails(r) \/ ReadFile(r)
                                    \/ HydrateState(r) \/ HydrateDraft(r)
PageStep   == OpenPage \/ ClosePage \/ Edit \/ PersistRevision
                \/ (state # Absent /\ \E k \in 1..Len(state.revisions) : SelectRevision(k))
DeployStep == Deploy \/ \E d \in deploys.flying : Arrives(d) \/ Fails(d)

PageNext == Reload \/ Quit \/ AddTheNode \/ ShellStep \/ PageStep \/ DeployStep

PageSpec == PageInit /\ [][PageNext]_pageVars

(***************************************************************************)
(* Properties.                                                             *)
(***************************************************************************)
\* The last edit of the draft is never lost: the open page shows it and LocalStorage has
\* it, through closing, reloading and quitting, unless it was made while the desktop's
\* draft was still to come, or a page was opened while the desktop's file had another.
EditsAreKept ==
    (latest.draft # Absent /\ ~doubtful.draft) =>
        /\ local.draft = latest.draft
        /\ page # Absent => Draft(page.draft) = latest.draft

\* So it is with the node and its revisions, which the desktop's file undoes only if they
\* were changed before it was read at the start, or if the file was behind at the start.
RevisionsAreKept ==
    ~doubtful.state => state = latest.state /\ local.state = latest.state

\* When the desktop shell has done all it was asked to, its files are what LocalStorage
\* has: nothing is written to the one and forgotten in the other. Excepted are writes
\* that failed or that another may have overtaken.
FilesFollow ==
    \A what \in {"state", "draft"} :
        (/\ desktop /\ requests = {}
         /\ ~doubtful[what] /\ ~overtaken[what])
            => files[what] = local[what]

\* When the deployment confirmed last has ended well, and no other was under way with it,
\* the node runs the draft that was confirmed.
ConfirmedIsServed ==
    (confirmed # Absent /\ deploys.flying = {}) => serves = confirmed
==============================================================================
