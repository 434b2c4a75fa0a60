----------------------------- MODULE StatusViews -----------------------------
(***************************************************************************)
(* What the manager shows of a node or a registry that it asks while the   *)
(* operator watches: the status tab of a node's page, which asks again and *)
(* again (src/manager/src/pages/node_config/mod.rs and status.rs), a       *)
(* node's card on the dashboard, which asks when its button is pressed,    *)
(* and the status popup of a registry, which asks once.                    *)
(*                                                                         *)
(* A question is a gRPC-web call. Its answer is applied when it arrives,   *)
(* whatever was asked since, unless the view is gone. How an answer is     *)
(* read differs between the node's client (services/node_api.rs) and the   *)
(* registry's (services/registry_api.rs).                                  *)
(***************************************************************************)
EXTENDS Naturals, SequencesExt

CONSTANTS Span,         \* the spans of the statistics that may be asked for
          DefaultSpan,  \* the span asked for at first
          Address,       \* where the manager may have the node listen
          MaxFlights,    \* bound: questions in flight
          MaxFaults      \* bound: refusals, lost and damaged answers

ASSUME StatusAssumption ==
    /\ DefaultSpan \in Span
    /\ MaxFlights \in Nat /\ MaxFaults \in Nat

VARIABLES view,       \* the view that is open, the tab's settings included
          address,    \* the node's address, as in the state
          hydrated,   \* the desktop's file was read
          interval,   \* what the tab's interval asks for
          flights,    \* the questions, in the order they were asked
          shown, error, loading, \* live_status, live_status_error, live_status_loading
          faults,     \* how many faults there were
          newest,     \* what became of the question asked last
          overlapped, \* it was asked while another was in flight
          moved       \* the address changed since the interval was made

asked == <<interval, flights, shown, error, loading, newest, overlapped, moved>>
viewVars == <<view, address, hydrated, faults, asked>>

Unset == [kind |-> "nothing"]
Asked(q) == q.phase = "asked"
InFlight == {i \in DOMAIN flights : Asked(flights[i])}

(***************************************************************************)
(* Answers. A body is a sequence of frames; a refusal comes as a frame of  *)
(* trailers or, when there is no message, in the headers alone.            *)
(***************************************************************************)
Reply(ok, body, header) == [ok |-> ok, body |-> body, header |-> header]

Served == Reply(TRUE, <<"message", "done">>, "none")
Refusals == {Reply(TRUE, <<"refused">>, "none"), Reply(TRUE, <<>>, "refused"),
             Reply(FALSE, <<>>, "none")}
Damaged == {Reply(TRUE, <<"message", "cut">>, "none"), Reply(TRUE, <<"cut">>, "none")}

\* parse_grpc_web_response: the status of the trailers, if there are any.
Trailer(body) ==
    IF Contains(body, "refused") THEN "refused" ELSE IF Contains(body, "done") THEN "done" ELSE "none"

\* No status at all is a status of 0, and an empty message decodes to one of defaults.
Decoded(reply, status) ==
    IF Contains(reply.body, "cut") \/ ~reply.ok \/ status = "refused" THEN "error"
    ELSE IF Contains(reply.body, "message") THEN "status" ELSE "defaults"

\* get_status of the node's client, and status of the registry's, which knows the
\* status in the headers too (header_grpc_status).
NodeOutcome(reply) == Decoded(reply, Trailer(reply.body))
RegistryOutcome(reply) ==
    Decoded(reply, IF Trailer(reply.body) = "none" THEN reply.header ELSE Trailer(reply.body))

Outcome(kind, reply) == IF kind = "popup" THEN RegistryOutcome(reply) ELSE NodeOutcome(reply)

\* The answer that a node's client takes for a status, though it is a refusal.
Misread(kind, reply) == kind # "popup" /\ reply = Reply(TRUE, <<>>, "refused")

(***************************************************************************)
(* Asking.                                                                 *)
(***************************************************************************)
Question(range, to) == [range |-> range, to |-> to, phase |-> "asked"]
Newest(range, became) == [range |-> range, became |-> became]

\* Mutant: the error of the question before is left standing.
SlipErrorWhileAsking == error
ErrorWhileAsking == FALSE

\* fetch_live_status; what is shown stays until there is an answer.
Fetch(range, to) ==
    /\ Len(flights) < MaxFlights
    /\ flights' = Append(flights, Question(range, to))
    /\ loading' = TRUE
    /\ error' = ErrorWhileAsking
    /\ newest' = Newest(range, "pending")
    /\ overlapped' = (InFlight # {})
    /\ UNCHANGED <<shown, faults>>

\* Mutant: the interval goes on with what it was made with.
SlipPolls(v) ==
    IF ~v.on \/ ~v.auto THEN Unset
    ELSE IF interval # Unset THEN interval
    ELSE [kind |-> "every", range |-> v.range, to |-> address]

\* The interval that a render with these settings leaves behind.
Polls(v) ==
    IF v.on /\ v.auto THEN [kind |-> "every", range |-> v.range, to |-> address] ELSE Unset

\* The effect on the tab and its settings: ask at once, and then at every interval.
Watch(v) ==
    /\ view' = v
    /\ interval' = Polls(v)
    /\ moved' = FALSE
    /\ Fetch(v.range, address)
    /\ UNCHANGED <<address, hydrated>>

(***************************************************************************)
(* Views come and go. With a view go its questions: nobody hears their     *)
(* answers.                                                                *)
(***************************************************************************)
View(kind) == [kind |-> kind, on |-> FALSE, auto |-> TRUE, range |-> DefaultSpan]
NoView == View("none")

ViewsInit ==
    /\ view = NoView
    /\ address \in Address
    /\ hydrated = FALSE
    /\ faults = 0
    /\ interval = Unset /\ flights = <<>> /\ shown = Unset
    /\ error = FALSE /\ loading = FALSE
    /\ newest = Newest(DefaultSpan, "none") /\ overlapped = FALSE /\ moved = FALSE

Opens(kind) == view = NoView /\ view.kind # kind

\* The status tab is the one a page opens with.
OpenPage == Opens("page") /\ Watch([View("page") EXCEPT !.on = TRUE])

OpenCard ==
    /\ Opens("card")
    /\ view' = View("card")
    /\ UNCHANGED <<address, hydrated, faults, asked>>

OpenPopup ==
    /\ Opens("popup")
    /\ view' = View("popup")
    /\ Fetch(DefaultSpan, address)
    /\ UNCHANGED <<address, hydrated, interval, moved>>

Leave ==
    /\ view # NoView
    /\ view' = NoView
    /\ interval' = Unset /\ flights' = <<>> /\ shown' = Unset
    /\ error' = FALSE /\ loading' = FALSE
    /\ newest' = Newest(DefaultSpan, "none") /\ overlapped' = FALSE /\ moved' = FALSE
    /\ UNCHANGED <<address, hydrated, faults>>

(***************************************************************************)
(* The status tab.                                                         *)
(***************************************************************************)
OnTab == view.kind = "page" /\ view.on

ShowTab == view.kind = "page" /\ ~view.on /\ Watch([view EXCEPT !.on = TRUE])

HideTab ==
    /\ OnTab
    /\ view' = [view EXCEPT !.on = FALSE]
    /\ interval' = Polls(view')
    /\ UNCHANGED <<address, hydrated, faults, flights, shown, error, loading, newest, overlapped, moved>>

\* The popup of settings: the span of the statistics, automatic refresh, and its
\* rate. Each of them is among what the effect depends on.
SetSpan == OnTab /\ \E range \in Span \ {view.range} : Watch([view EXCEPT !.range = range])
SetAuto  == OnTab /\ Watch([view EXCEPT !.auto = ~@])
SetRate  == OnTab /\ Watch(view)

\* Mutant: the timer goes off once.
SlipAfterTick == Unset
AfterTick == interval

Tick ==
    /\ interval # Unset
    /\ interval' = AfterTick
    /\ Fetch(interval.range, interval.to)
    /\ UNCHANGED <<view, address, hydrated, moved>>

\* The buttons of the tab and of the card are disabled while something is loading.
Refresh ==
    /\ OnTab \/ view.kind = "card"
    /\ ~loading
    /\ Fetch(view.range, address)
    /\ UNCHANGED <<view, address, hydrated, interval, moved>>

(***************************************************************************)
(* Answers.                                                                *)
(***************************************************************************)
Became(kind, reply) ==
    IF reply = Served THEN "answered" ELSE IF Misread(kind, reply) THEN "misread" ELSE "refused"

\* The tab says for another half second that it is loading, the others do not.
After(i) ==
    IF view.kind = "page" THEN [flights EXCEPT ![i].phase = "answered"] ELSE RemoveAt(flights, i)

Answer(i, reply) ==
    /\ Asked(flights[i])
    /\ flights' = After(i)
    /\ loading' = IF view.kind = "page" THEN loading ELSE FALSE
    /\ IF Outcome(view.kind, reply) = "error"
       THEN error' = TRUE /\ UNCHANGED shown
       ELSE /\ shown' = [kind |-> Outcome(view.kind, reply), range |-> flights[i].range]
            /\ UNCHANGED error
    /\ newest' = IF i = Len(flights) /\ newest.became = "pending"
                 THEN Newest(newest.range, Became(view.kind, reply))
                 ELSE newest
    /\ UNCHANGED <<view, address, hydrated, interval, overlapped, moved>>

\* A call that does not come back at all is an error like the damaged ones.
Answered(i) == Answer(i, Served) /\ UNCHANGED faults
Fails(i) ==
    /\ faults < MaxFaults
    /\ faults' = faults + 1
    /\ \E reply \in Refusals \cup Damaged : Answer(i, reply)

\* The half second is over: nothing is loading, whatever else was asked.
Settle(i) ==
    /\ ~Asked(flights[i])
    /\ flights' = RemoveAt(flights, i)
    /\ loading' = FALSE
    /\ UNCHANGED <<view, address, hydrated, interval, shown, error, faults, newest, overlapped, moved>>

\* The desktop's file arrives with another address: the page is rendered with it, the
\* interval goes on with the old one.
Hydrate ==
    /\ ~hydrated
    /\ hydrated' = TRUE
    /\ address' \in Address
    /\ moved' = (interval # Unset /\ address' # interval.to)
    /\ UNCHANGED <<view, interval, flights, shown, error, loading, faults, newest, overlapped>>

Oldest(i) == \A j \in InFlight : i <= j

Open == OpenPage \/ OpenCard \/ OpenPopup
Tab  == ShowTab \/ HideTab \/ SetSpan \/ SetAuto \/ SetRate
Ends(i) == Answered(i) \/ Fails(i) \/ Settle(i)

ViewsNext ==
    \/ Open \/ Leave \/ Tab \/ Tick \/ Refresh \/ Hydrate
    \/ \E i \in DOMAIN flights : Ends(i)

(***************************************************************************)
(* A browser ends every call that was sent, and its timers go off.         *)
(***************************************************************************)
OldestAnswers == \E i \in DOMAIN flights : Oldest(i) /\ (Answered(i) \/ Fails(i))
Settles == \E i \in DOMAIN flights : Settle(i)

ViewsSpec ==
    /\ ViewsInit /\ [][ViewsNext]_viewVars
    /\ WF_viewVars(OldestAnswers) /\ WF_viewVars(Settles) /\ WF_viewVars(Tick)

(***************************************************************************)
(* Properties.                                                             *)
(***************************************************************************)
\* Unless it was asked while another question was in flight, what a view tells is the
\* answer to the question asked last: an error if, and only if, that was refused, and
\* its status otherwise. The card and the popup never have two questions in flight. Out
\* of account are the refusals that the node's client takes for a status of defaults.
TellsTheLatest ==
    /\ view.kind # "page" => ~overlapped
    /\ (newest.became \in {"answered", "refused"} /\ ~overlapped) =>
           /\ error = (newest.became = "refused")
           /\ newest.became = "answered" => shown = [kind |-> "status", range |-> newest.range]

\* Whatever asks, asks for the span that is set by then, and the node at the address it
\* has by then; only an interval that was made before the desktop's file arrived does not
\* follow the address.
AsksWhatIsSet ==
    [][Len(flights') > Len(flights) =>
           /\ Last(flights').range = view'.range
           /\ moved \/ Last(flights').to = address']_viewVars

\* An operator who stays on the tab, with automatic refresh and one span, comes to see
\* the node's status over that span and no error, and goes on seeing it, however many
\* answers to older questions come in late. Faults are finitely many.
Watching(r) == OnTab /\ view.auto /\ view.range = r
TabCatchesUp ==
    \A r \in Span :
        <>[]Watching(r) => <>[](~error /\ shown = [kind |-> "status", range |-> r])
==============================================================================
