------------------------------ MODULE SipDialog ------------------------------
(***************************************************************************)
(* The SIP conversation of the DPI-imitation proxy with one client:        *)
(* handle_sip_probe of proxy/proxy.rs and the dialog of                    *)
(* proxy/responder.rs.  The maps are keyed by the client, so one client    *)
(* shows all there is.                                                     *)
(*                                                                         *)
(* The receive loop answers requests one by one and awaits between the     *)
(* look at the dialog and its update.  A fresh INVITE that was answered    *)
(* starts a deferred task, which rings after 200 ms and picks up 800 ms    *)
(* later.  The client's teardown (ProxySession) removes the dialog and     *)
(* then aborts the task.                                                   *)
(*                                                                         *)
(* A header is the part of it that is compared or echoed: the Call-ID, and *)
(* the method in the CSeq.  Texts, tags and Vias are left out.             *)
(***************************************************************************)
EXTENDS Naturals, Sequences, FiniteSets

CONSTANTS
  Calls,         \* Call-ID values
  MaxTasks,      \* bound: deferred tasks started
  MaxCalls,      \* bound: dialogs created
  MaxTeardowns   \* bound: teardowns of the client

ASSUME SipAssumption ==
  /\ MaxTasks \in Nat /\ MaxCalls \in Nat /\ MaxTeardowns \in Nat
  /\ Calls # {} /\ IsFiniteSet(Calls)

Stages  == <<"Idle", "Invited", "Ringing", "Established", "Terminated">>
Stage   == {Stages[i] : i \in 1..5}
Methods == {"INVITE", "ACK", "BYE", "CANCEL", "OPTIONS"}   \* OPTIONS: and its like
Task    == 1..MaxTasks
NoTask  == 0

Rank(stage) == CHOOSE i \in 1..5 : Stages[i] = stage

\* nr numbers the dialogs, to tell two of one Call-ID apart; 0: no entry.
Dialog   == [nr : 0..MaxCalls, call : Calls, stage : Stage, cseq : Methods]
AnyCall  == CHOOSE k \in Calls : TRUE
NoDialog == [nr |-> 0, call |-> AnyCall, stage |-> "Idle", cseq |-> "INVITE"]

VARIABLES
  dialog,    \* sip_dialogs, this client's entry
  rx,        \* the receive loop: where it is, and handle_sip_probe's locals
  task,      \* per generation, the deferred task
  handle,    \* sip_deferred_handles, this client's entry
  nextTask,  \* sip_deferred_generation
  calls,     \* dialogs created
  torn,      \* teardowns; teardown: between its two halves
  teardown,
  shutdown,
  sent       \* what the current dialog's INVITE was answered with

vars == <<dialog, rx, task, handle, nextTask, calls, torn, teardown, shutdown, sent>>

Wire == [ok : BOOLEAN,        \* 200 OK to the INVITE
         gone : BOOLEAN,      \* 487 Request Terminated
         strange : BOOLEAN,   \* a deferred answer named another method's CSeq
         missed : BOOLEAN]    \* a deferred answer got no token or was not sent
Nothing == [ok |-> FALSE, gone |-> FALSE, strange |-> FALSE, missed |-> FALSE]

IdleRx == [at |-> "idle", method |-> "ACK", call |-> AnyCall, fresh |-> FALSE, before |-> "none",
           todo |-> <<>>, full |-> 0, done |-> 0, rang |-> FALSE]

Init ==
  /\ dialog = NoDialog /\ rx = IdleRx
  /\ task = [g \in Task |-> [at |-> "new", call |-> AnyCall]]
  /\ handle = NoTask /\ nextTask = 1 /\ calls = 0
  /\ torn = 0 /\ teardown = FALSE /\ shutdown = FALSE
  /\ sent = Nothing

Open == dialog.nr # 0

-----------------------------------------------------------------------------
(***************************************************************************)
(* The receive loop                                                        *)
(***************************************************************************)
\* update_request_headers refuses headers whose answers would not fit.
Updated(method, fits) == IF fits THEN [dialog EXCEPT !.cseq = method] ELSE dialog

\* Faulty variant: an INVITE of the same call is always a retransmission.
Invite_SameCall(call, fits) ==
  /\ rx.at = "idle" /\ ~shutdown /\ calls < MaxCalls
  /\ LET fresh == ~Open \/ dialog.call # call IN
       /\ dialog' = IF fresh THEN [nr |-> calls + 1, call |-> call, stage |-> "Idle", cseq |-> "INVITE"]
                    ELSE Updated("INVITE", fits)
       /\ calls' = IF fresh THEN calls + 1 ELSE calls
       /\ sent' = IF fresh THEN Nothing ELSE sent
       /\ rx' = [IdleRx EXCEPT !.at = "build", !.method = "INVITE", !.call = call, !.fresh = fresh]
  /\ UNCHANGED <<task, handle, nextTask, torn, teardown, shutdown>>

\* An INVITE that parses: a new dialog if there is none in progress or it is
\* of another call, else a retransmission.
Invite(call, fits) ==
  /\ rx.at = "idle" /\ ~shutdown /\ calls < MaxCalls
  /\ LET fresh == ~Open \/ dialog.stage \in {"Idle", "Terminated"} \/ dialog.call # call IN
       /\ dialog' = IF fresh THEN [nr |-> calls + 1, call |-> call, stage |-> "Idle", cseq |-> "INVITE"]
                    ELSE Updated("INVITE", fits)
       /\ calls' = IF fresh THEN calls + 1 ELSE calls
       /\ sent' = IF fresh THEN Nothing ELSE sent
       /\ rx' = [IdleRx EXCEPT !.at = "build", !.method = "INVITE", !.call = call, !.fresh = fresh]
  /\ UNCHANGED <<task, handle, nextTask, torn, teardown, shutdown>>

\* An INVITE that does not: the dialog is forgotten, the answer stateless.
InviteUnparsed ==
  /\ rx.at = "idle" /\ ~shutdown /\ Open
  /\ dialog' = NoDialog /\ sent' = Nothing
  /\ UNCHANGED <<rx, task, handle, nextTask, calls, torn, teardown, shutdown>>

\* Another method of the dialog's call.  One of another call, or without a
\* dialog, is answered from the request alone and changes nothing.
Request(method, fits) ==
  /\ rx.at = "idle" /\ ~shutdown /\ Open /\ method # "INVITE"
  /\ dialog' = Updated(method, fits)
  /\ rx' = [IdleRx EXCEPT !.at = "build", !.method = method]
  /\ UNCHANGED <<task, handle, nextTask, calls, torn, teardown, shutdown, sent>>

\* generate_sip_responses, with what each answers.
Responses(method, stage) ==
  CASE method = "INVITE" ->
         (CASE stage \in {"Idle", "Terminated"} -> <<"100">>
            [] stage = "Invited"                -> <<"100", "180">>
            [] stage = "Ringing"                -> <<"180">>
            [] stage = "Established"            -> <<"200 INVITE">>)
    [] method = "ACK"    -> <<>>
    [] method = "BYE"    -> IF stage = "Established" THEN <<"200">> ELSE <<>>
    [] method = "CANCEL" -> IF stage \in {"Invited", "Ringing"} THEN <<"200", "487">> ELSE <<"200">>
    [] OTHER             -> <<"200">>

Build ==
  /\ rx.at = "build"
  /\ LET todo == IF Open THEN Responses(rx.method, dialog.stage) ELSE <<>> IN
       rx' = [rx EXCEPT !.at = "send", !.todo = todo, !.full = Len(todo),
                        !.before = IF Open THEN dialog.stage ELSE "none"]
  /\ UNCHANGED <<dialog, task, handle, nextTask, calls, torn, teardown, shutdown, sent>>

\* One response: a token is needed and the send awaited, and either may fail.
Send(out) ==
  /\ rx.at = "send" /\ rx.todo # <<>>
  /\ rx' = [rx EXCEPT !.todo = Tail(@), !.done = @ + (IF out THEN 1 ELSE 0),
                      !.rang = @ \/ (out /\ Head(rx.todo) = "180")]
  /\ sent' = [sent EXCEPT !.ok = @ \/ (out /\ Head(rx.todo) = "200 INVITE"),
                          !.gone = @ \/ (out /\ Head(rx.todo) = "487")]
  /\ UNCHANGED <<dialog, task, handle, nextTask, calls, torn, teardown, shutdown>>

\* sip_next_stage, for the methods that reach it.
NextStage(stage, method) ==
  CASE method = "BYE" /\ stage # "Idle" -> "Terminated"
    [] method = "CANCEL" /\ stage \in {"Invited", "Ringing"} -> "Terminated"
    [] OTHER -> stage

\* Faulty variant: the stage is computed from the one the responses were for.
StageAfter_Stale(stage) ==
  IF rx.method = "INVITE"
  THEN CASE rx.before \in {"Idle", "Terminated"} /\ rx.done > 0 -> "Invited"
         [] rx.before = "Invited" /\ rx.rang -> "Ringing"
         [] OTHER -> rx.before
  ELSE IF rx.method \in {"CANCEL", "ACK"} \/ (rx.full > 0 /\ rx.done = rx.full)
  THEN NextStage(rx.before, rx.method) ELSE rx.before

\* sip_stage_after_immediate_response: the stage has to be still what the
\* responses were built for.
StageAfter(stage) ==
  IF rx.method = "INVITE"
  THEN CASE {rx.before, stage} \subseteq {"Idle", "Terminated"} /\ rx.done > 0 -> "Invited"
         [] rx.before = "Invited" /\ stage = "Invited" /\ rx.rang -> "Ringing"
         [] OTHER -> stage
  ELSE IF rx.method \in {"CANCEL", "ACK"} \/ (rx.full > 0 /\ rx.done = rx.full)
  THEN NextStage(stage, rx.method) ELSE stage

\* The stage advances; a fresh INVITE with an answer gets its deferred task.
Advance ==
  LET start == rx.fresh /\ rx.done > 0 IN
  /\ rx.at = "send" /\ rx.todo = <<>>
  /\ start => nextTask <= MaxTasks
  /\ dialog' = IF Open THEN [dialog EXCEPT !.stage = StageAfter(dialog.stage)] ELSE dialog
  /\ IF start THEN /\ task' = [task EXCEPT ![nextTask] = [at |-> "ring", call |-> rx.call]]
                   /\ nextTask' = nextTask + 1
              ELSE UNCHANGED <<task, nextTask>>
  /\ rx' = IF start THEN [IdleRx EXCEPT !.at = "replace"] ELSE IdleRx
  /\ UNCHANGED <<handle, calls, torn, teardown, shutdown, sent>>

Aborted(g) ==
  IF g # NoTask /\ task[g].at # "new" THEN [task EXCEPT ![g].at = "done"] ELSE task

\* The earlier task is aborted and the new one registered, unless it has ended.
Replace ==
  /\ rx.at = "replace"
  /\ task' = Aborted(handle)
  /\ handle' = IF task[nextTask - 1].at = "done" THEN NoTask ELSE nextTask - 1
  /\ rx' = IdleRx
  /\ UNCHANGED <<dialog, nextTask, calls, torn, teardown, shutdown, sent>>

(***************************************************************************)
(* The deferred task of generation g                                       *)
(***************************************************************************)
Unregistered(g) == IF handle = g THEN NoTask ELSE handle

\* Faulty variant: the call is not compared.
Deferred_AnyCall(g, stages, next, out) ==
  LET concerns == Open /\ dialog.stage \in stages IN
  /\ dialog' = IF concerns /\ out THEN [dialog EXCEPT !.stage = next] ELSE dialog
  /\ sent' = sent

\* An answer of the task goes out if it still concerns the dialog.
Deferred(g, stages, next, out) ==
  LET concerns == Open /\ dialog.stage \in stages /\ dialog.call = task[g].call IN
  /\ dialog' = IF concerns /\ out THEN [dialog EXCEPT !.stage = next] ELSE dialog
  /\ sent' = IF concerns
             THEN [sent EXCEPT !.ok = @ \/ (out /\ next = "Established"),
                               !.strange = @ \/ (out /\ dialog.cseq # "INVITE"),
                               !.missed = @ \/ (~out /\ next = "Established")]
             ELSE sent

\* 180 Ringing, held under the dialog's guard from the test to the new stage.
Ring(g, out) ==
  /\ task[g].at = "ring"
  /\ Deferred(g, {"Invited"}, "Ringing", out)
  /\ task' = [task EXCEPT ![g].at = "ok"]
  /\ UNCHANGED <<rx, handle, nextTask, calls, torn, teardown, shutdown>>

\* 200 OK, and the end of the task.
PickUp(g, out) ==
  /\ task[g].at = "ok"
  /\ Deferred(g, {"Invited", "Ringing"}, "Established", out)
  /\ task' = [task EXCEPT ![g].at = "done"]
  /\ handle' = Unregistered(g)
  /\ UNCHANGED <<rx, nextTask, calls, torn, teardown, shutdown>>

GiveUp(g) ==
  /\ task[g].at \in {"ring", "ok"} /\ shutdown
  /\ task' = [task EXCEPT ![g].at = "done"]
  /\ handle' = Unregistered(g)
  /\ UNCHANGED <<dialog, rx, nextTask, calls, torn, teardown, shutdown, sent>>

(***************************************************************************)
(* The client's teardown, by the sweeper or by a relay that failed         *)
(***************************************************************************)
TeardownDialog ==
  /\ ~teardown /\ torn < MaxTeardowns
  /\ dialog' = NoDialog /\ sent' = Nothing
  /\ torn' = torn + 1 /\ teardown' = TRUE
  /\ UNCHANGED <<rx, task, handle, nextTask, calls, shutdown>>

TeardownTask ==
  /\ teardown
  /\ task' = Aborted(handle) /\ handle' = NoTask
  /\ teardown' = FALSE
  /\ UNCHANGED <<dialog, rx, nextTask, calls, torn, shutdown, sent>>

Shutdown ==
  /\ ~shutdown /\ shutdown' = TRUE
  /\ UNCHANGED <<dialog, rx, task, handle, nextTask, calls, torn, teardown, sent>>

-----------------------------------------------------------------------------
RxStep == Build \/ (\E out \in BOOLEAN : Send(out)) \/ Advance \/ Replace

TaskStep(g) == GiveUp(g) \/ \E out \in BOOLEAN : Ring(g, out) \/ PickUp(g, out)

Next ==
  \/ \E fits \in BOOLEAN : \/ \E call \in Calls : Invite(call, fits)
                           \/ \E method \in Methods : Request(method, fits)
  \/ InviteUnparsed
  \/ RxStep
  \/ \E g \in Task : TaskStep(g)
  \/ TeardownDialog \/ TeardownTask \/ Shutdown

Spec == Init /\ [][Next]_vars

\* The loop and the tasks run, timers fire, a teardown goes on to its end.
FairSpec ==
  Spec /\ WF_vars(RxStep) /\ WF_vars(TeardownTask) /\ \A g \in Task : WF_vars(TaskStep(g))

-----------------------------------------------------------------------------
\* The variables keep their shape; the task that is registered has not ended.
TypeOK ==
  /\ dialog \in Dialog /\ calls \in 0..MaxCalls
  /\ task \in [Task -> [at : {"new", "ring", "ok", "done"}, call : Calls]]
  /\ handle \in Task \union {NoTask} /\ nextTask \in 1..(MaxTasks + 1)
  /\ handle # NoTask => task[handle].at \in {"ring", "ok"}
  /\ rx.at \in {"idle", "build", "send", "replace"}
  /\ rx.before \in Stage \union {"none"} /\ rx.done <= rx.full
  /\ torn \in 0..MaxTeardowns /\ teardown \in BOOLEAN /\ shutdown \in BOOLEAN
  /\ sent \in Wire

\* A dialog only moves forward, whatever the deferred task did while the loop
\* awaited its sends: a call that was answered is never put back to ringing,
\* one that was ended never revived.
StageForward ==
  [][dialog'.nr = dialog.nr => Rank(dialog'.stage) >= Rank(dialog.stage)]_vars

\* A deferred task answers only the call it was started for, also after other
\* calls and a teardown: what it has not started stays as it was.
AnswersOwnCall ==
  [][\A g \in Task : task[g].at \in {"ring", "ok"} /\ task'[g] # task[g] =>
       dialog'.stage = dialog.stage \/ dialog.call = task[g].call]_vars

\* A task that may still answer is registered, where a teardown or the next
\* INVITE finds it, but for the moment in which it replaces another.
TaskRegistered ==
  \A g \in Task : task[g].at \in {"ring", "ok"} =>
    handle = g \/ (rx.at = "replace" /\ g = nextTask - 1)

\* A call that was told to wait is answered or ended, unless the answer was
\* rate limited, a teardown took it away or the proxy stops.
CallSettles ==
  \A n \in 1..MaxCalls :
    (dialog.nr = n /\ dialog.stage \in {"Invited", "Ringing"}) ~>
      (dialog.nr # n \/ dialog.stage \in {"Established", "Terminated"}
         \/ sent.missed \/ torn > 0 \/ shutdown)

\* "Original INVITE CSeq: header, used for final responses to the INVITE
\* transaction" (responder.rs:725): the deferred answers name the INVITE.
AnswersInvite == ~sent.strange

\* "without an await gap where a CANCEL/BYE could terminate the dialog"
\* (proxy.rs:1048): one INVITE has one final answer.
OneFinalAnswer == ~(sent.ok /\ sent.gone)
=============================================================================
