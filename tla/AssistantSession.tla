-------------------------- MODULE AssistantSession --------------------------
(***************************************************************************)
(* lib/runtime/assistant_session.dart and lib/services/evenai.dart: one    *)
(* spoken question, from the glasses' start event to the last page of the  *)
(* answer.                                                                 *)
(*                                                                         *)
(* Dart runs one handler at a time up to its next await; while it waits,   *)
(* any other event is handled.  A handler that waits is a flow: where it   *)
(* is to go on (pc) and the session it was started for (gen), which may    *)
(* have been superseded when it does.                                      *)
(*                                                                         *)
(* Coordinator  generation, state (the last snapshot of each generation)   *)
(* Controller   ai: the session held, isReceivingAudio, isRunning,         *)
(*              _isManual, the sessions the recording and the page timer   *)
(*              are for, the pages of the list, the one that is current,   *)
(*              _pageSendInFlight                                          *)
(* Handlers     flow                                                       *)
(* History      replies  how many answers a session was given;             *)
(*              acked  the last page of which of them was acknowledged     *)
(*                                                                         *)
(* Texts are told apart only by being empty, and what the phone itself     *)
(* displays (updateDynamicText and the flags of its screen) is left out.   *)
(* Of the debounced events only those that pass are modelled; timeouts are *)
(* answers that may come at any time.  How the speech channel fills the    *)
(* transcript is left open, and a wait for a channel to close may be long  *)
(* even if none is open.                                                   *)
(***************************************************************************)
EXTENDS Naturals

CONSTANTS
    Flows,          \* handlers that may wait at the same time
    MaxGeneration,  \* bound on sessions
    MaxPages        \* bound on the pages of an answer

ASSUME AssistantAssumption == MaxGeneration \in Nat /\ MaxPages \in Nat \ {0}

VARIABLES generation, state, ai, flow, platform, replies, acked

history == <<replies, acked>>
assistantVars == <<generation, state, ai, flow, platform, history>>

Generations == 1..MaxGeneration
Terminal == {"completed", "cancelled", "failed"}
Forward == [acquiringAudio |-> "recording", recording |-> "finalizingSpeech",
            finalizingSpeech |-> "thinking", thinking |-> "rendering", rendering |-> "completed"]
Lifecycle == DOMAIN Forward \cup Terminal \cup {"idle"}

\* _allowedTransitions
Allowed(s) == IF s \in DOMAIN Forward THEN {Forward[s], "cancelled", "failed"} ELSE {}

Waits == {"clearing", "listening", "bootstrapping", "starting", "opening", "failing", "stopping",
          "transcribing", "asking", "cancelling", "unsent", "first", "pausing", "last",
          "autoPage", "manualPage", "onePage", "cleared"}
AtRest == [pc |-> "idle", gen |-> 0, failing |-> FALSE, reply |-> 0, pages |-> 0, to |-> 0,
           last |-> FALSE]

\* A handler that waits: whether it stops the assistant when its reply is
\* over, which reply it shows and of how many pages, the page it turns to,
\* whether that is the last.
FlowState == [pc : Waits \cup {"idle"}, gen : 0..MaxGeneration, failing : BOOLEAN,
              reply : Nat, pages : 0..MaxPages, to : Nat, last : BOOLEAN]
Controller == [held : 0..MaxGeneration, receiving : BOOLEAN, running : BOOLEAN, manual : BOOLEAN,
               limit : 0..MaxGeneration, pageTimer : 0..MaxGeneration,
               pages : 0..MaxPages, page : Nat, sending : BOOLEAN]
Vacant == [held |-> 0, receiving |-> FALSE, running |-> FALSE, manual |-> FALSE,
          limit |-> 0, pageTimer |-> 0, pages |-> 0, page |-> 0, sending |-> FALSE]

\* The types; a session exists once it has begun.
AssistantTypeOK ==
    /\ generation \in 0..MaxGeneration
    /\ state \in [Generations -> Lifecycle]
    /\ \A g \in Generations : state[g] = "idle" <=> generation < g
    /\ ai \in Controller
    /\ flow \in [Flows -> FlowState]
    /\ \A f \in Flows : flow[f].gen <= generation
    /\ platform \in {"android", "ios"}
    /\ replies \in [Generations -> Nat]
    /\ acked \subseteq Generations \X Nat

AssistantInit ==
    /\ generation = 0 /\ state = [g \in Generations |-> "idle"]
    /\ ai = Vacant /\ flow = [f \in Flows |-> AtRest]
    /\ platform \in {"android", "ios"}
    /\ acked = {} /\ replies = [g \in Generations |-> 0]

-----------------------------------------------------------------------------
(* The coordinator                                                         *)

\* isCurrent: whatever state the session is in.
IsCurrent(g) == g # 0 /\ g = generation

Over(g) == state[g] \in Terminal

\* transition() does not throw: staying where it is is allowed.
CanMove(g, s) == IsCurrent(g) /\ (state[g] = s \/ s \in Allowed(state[g]))

\* Faulty variant: one end overwrites another.
EndedAgain(g, s) == IF IsCurrent(g) THEN [state EXCEPT ![g] = s] ELSE state

\* cancel(), fail() and complete()
Ended(g, s) == IF IsCurrent(g) /\ ~Over(g) THEN [state EXCEPT ![g] = s] ELSE state

\* Faulty variant: the session before is left as it is.
BegunBeside == [state EXCEPT ![generation + 1] = "acquiringAudio"]

\* begin()
Begun ==
    [g \in Generations |->
        IF g = generation + 1 THEN "acquiringAudio"
        ELSE IF IsCurrent(g) /\ ~Over(g) THEN "cancelled" ELSE state[g]]

-----------------------------------------------------------------------------
(* Clearing                                                                *)

\* clear(), up to where it waits for the speech channel to be closed.
Cleared == [Vacant EXCEPT !.sending = ai.sending]

Goes(f, pc) == flow' = [flow EXCEPT ![f] = [flow[f] EXCEPT !.pc = pc]]
Returns(f) == flow' = [flow EXCEPT ![f] = AtRest]

\* clear(cancelSession: false) in a handler that has failed its session.
FailsAndClears(f) ==
    /\ state' = Ended(flow[f].gen, "failed")
    /\ ai' = Cleared
    /\ Goes(f, "cleared")
    /\ UNCHANGED <<generation, platform, history>>

\* A reply is over; the handler that could not start stops the assistant.
ReplyEnds(f) == IF flow[f].failing THEN Goes(f, "failing") ELSE Returns(f)

\* The rest of clear(): the page that was being sent is forgotten.
ClearEnds(f) ==
    /\ flow[f].pc = "cleared"
    /\ ai' = [ai EXCEPT !.sending = FALSE]
    /\ ReplyEnds(f)
    /\ UNCHANGED <<generation, state, platform, history>>

-----------------------------------------------------------------------------
(* startSendReply()                                                        *)

\* n pages for session g, now in the states of moved: the first is sent,
\* unless the assistant was cleared meanwhile.
Reply(f, g, n, failing, moved) ==
    /\ ai' = [ai EXCEPT !.manual = FALSE, !.pages = n, !.page = 0]
    /\ state' = moved
    /\ replies' = [replies EXCEPT ![g] = @ + 1]
    /\ flow' = [flow EXCEPT ![f] = [AtRest EXCEPT !.pc = IF ai.running THEN "first" ELSE "unsent",
                                      !.gen = g, !.failing = failing,
                                      !.reply = replies[g] + 1, !.pages = n]]
    /\ UNCHANGED <<generation, platform, acked>>

\* sendEvenAIReply() throws when the call is not authorized or cannot be
\* recorded: the handler is over.  In the one that could not start this is one failure more.
SendThrows(f) ==
    /\ flow[f].pc \in {"first", "last"} /\ ReplyEnds(f)
    /\ UNCHANGED <<generation, state, ai, platform, history>>

\* The first page was shown, or not.  How many pages there are is read from
\* the list as it is now.
FirstPage(f) ==
    LET g == flow[f].gen IN
    /\ flow[f].pc \in {"first", "unsent"}
    /\ \/ /\ ~IsCurrent(g) /\ ReplyEnds(f)
          /\ UNCHANGED <<generation, state, ai, platform, history>>
       \/ /\ IsCurrent(g) /\ flow[f].pc = "first" /\ ai.pages = 1 /\ Goes(f, "pausing")
          /\ UNCHANGED <<generation, state, ai, platform, history>>
       \/ /\ IsCurrent(g) /\ flow[f].pc = "first" /\ ai.pages # 1 /\ ReplyEnds(f)
          /\ ai' = [ai EXCEPT !.pageTimer = g]
          /\ UNCHANGED <<generation, state, platform, history>>
       \/ IsCurrent(g) /\ FailsAndClears(f)

\* After three seconds the page is sent again, as the last one.
PauseEnds(f) ==
    /\ flow[f].pc = "pausing"
    /\ IF ~ai.manual /\ ai.running /\ IsCurrent(flow[f].gen) THEN Goes(f, "last") ELSE ReplyEnds(f)
    /\ UNCHANGED <<generation, state, ai, platform, history>>

Shown(f) == acked' = acked \cup {<<flow[f].gen, flow[f].reply>>}

\* What was sent is the first page of this handler's own answer, which may
\* have more.
LastPage(f) ==
    LET g == flow[f].gen IN
    /\ flow[f].pc = "last"
    /\ \/ /\ IsCurrent(g) /\ ReplyEnds(f)
          /\ state' = Ended(g, "completed")
          /\ IF flow[f].pages = 1 THEN Shown(f) ELSE UNCHANGED acked
          /\ UNCHANGED <<generation, ai, platform, replies>>
       \/ /\ ~IsCurrent(g) /\ ReplyEnds(f)
          /\ UNCHANGED <<generation, state, ai, platform, history>>
       \/ IsCurrent(g) /\ FailsAndClears(f)

-----------------------------------------------------------------------------
(* toStartEvenAIByOS()                                                     *)

\* What it was doing is cleared first.
OsStart(f) ==
    /\ flow[f].pc = "idle"
    /\ state' = IF ai.held # 0 THEN Ended(ai.held, "cancelled") ELSE state
    /\ ai' = Cleared
    /\ Goes(f, "clearing")
    /\ UNCHANGED <<generation, platform, history>>

\* With the glasses connected a session begins.
BeginSession(f) ==
    /\ flow[f].pc = "clearing"
    /\ \/ /\ generation < MaxGeneration
          /\ generation' = generation + 1
          /\ state' = Begun
          /\ ai' = [ai EXCEPT !.sending = FALSE, !.held = generation + 1]
          /\ flow' = [flow EXCEPT ![f] = [AtRest EXCEPT !.pc = "listening", !.gen = generation + 1]]
       \/ /\ ai' = [ai EXCEPT !.sending = FALSE] /\ Returns(f)
          /\ UNCHANGED <<generation, state>>
    /\ UNCHANGED <<platform, history>>

\* The speech channel is open; Android asks for a ticket before it starts.
Listening(f) ==
    /\ flow[f].pc = "listening"
    /\ ai' = [ai EXCEPT !.receiving = TRUE, !.running = TRUE, !.page = 0]
    /\ Goes(f, IF platform = "android" THEN "bootstrapping" ELSE "starting")
    /\ UNCHANGED <<generation, state, platform, history>>

\* Faulty variant: the user is told and the session is left as it is.
TellsOnly(f) ==
    /\ flow[f].pc \in {"bootstrapping", "starting", "opening"}
    /\ Goes(f, "failing")
    /\ UNCHANGED <<generation, state, ai, platform, history>>

\* Anything thrown since ends here: the session fails and native speech is
\* stopped before the controller is cleared.
StartThrows(f) ==
    /\ flow[f].pc \in {"bootstrapping", "starting", "opening"}
    /\ state' = Ended(flow[f].gen, "failed")
    /\ Goes(f, "failing")
    /\ UNCHANGED <<generation, ai, platform, history>>

\* The ticket came, or the native assistant runs and openEvenAIMic() asks
\* for the microphone.
Started(f) ==
    /\ flow[f].pc \in {"bootstrapping", "starting"}
    /\ IF flow[f].pc = "starting" THEN Goes(f, "opening")
       ELSE IF IsCurrent(flow[f].gen) THEN Goes(f, "starting") ELSE Returns(f)
    /\ UNCHANGED <<generation, state, ai, platform, history>>

\* The microphone opens, or does not and the user is told so.
MicAnswers(f) ==
    LET g == flow[f].gen IN
    /\ flow[f].pc = "opening"
    /\ \/ /\ ~IsCurrent(g) /\ Returns(f)
          /\ UNCHANGED <<generation, state, ai, platform, history>>
       \/ /\ CanMove(g, "recording") /\ Returns(f)
          /\ state' = [state EXCEPT ![g] = "recording"]
          /\ ai' = [ai EXCEPT !.limit = g]
          /\ UNCHANGED <<generation, platform, history>>
       \/ /\ IsCurrent(g) /\ ~CanMove(g, "recording") /\ Goes(f, "failing")
          /\ state' = Ended(g, "failed")
          /\ UNCHANGED <<generation, ai, platform, history>>
       \/ IsCurrent(g) /\ Reply(f, g, 1, TRUE, Ended(g, "failed"))

\* Native speech was stopped, or could not be.
NativeStopped(f) ==
    /\ flow[f].pc \in {"failing", "cancelling"}
    /\ ai' = Cleared
    /\ flow' = [flow EXCEPT ![f] = [flow[f] EXCEPT !.pc = "cleared", !.failing = FALSE]]
    /\ UNCHANGED <<generation, state, platform, history>>

-----------------------------------------------------------------------------
(* recordOverByOS()                                                        *)

OsStop(f) ==
    LET g == ai.held IN
    /\ flow[f].pc = "idle" /\ IsCurrent(g)
    /\ ai' = [ai EXCEPT !.receiving = FALSE, !.limit = 0]
    /\ IF CanMove(g, "finalizingSpeech")
       THEN /\ state' = [state EXCEPT ![g] = "finalizingSpeech"]
            /\ flow' = [flow EXCEPT ![f] = [AtRest EXCEPT !.pc = "stopping", !.gen = g]]
       ELSE UNCHANGED <<state, flow>>
    /\ UNCHANGED <<generation, platform, history>>

SpeechStopped(f) ==
    /\ flow[f].pc = "stopping"
    /\ \/ /\ Goes(f, "transcribing")
          /\ UNCHANGED <<generation, state, ai, platform, history>>
       \/ FailsAndClears(f)

\* Nothing was said and the user is told so, or the model is asked.  A
\* session that has ended is still current: transition() throws.
Transcribed(f) ==
    LET g == flow[f].gen
        goesOn == IsCurrent(g) /\ state[g] \in {"finalizingSpeech", "thinking"} IN
    /\ flow[f].pc = "transcribing"
    /\ \/ goesOn /\ Reply(f, g, 1, FALSE, [state EXCEPT ![g] = "rendering"])
       \/ /\ goesOn /\ Goes(f, "asking")
          /\ state' = [state EXCEPT ![g] = "thinking"]
          /\ UNCHANGED <<generation, ai, platform, history>>
       \/ /\ ~goesOn /\ Returns(f)
          /\ UNCHANGED <<generation, state, ai, platform, history>>

\* The model has answered, failed or timed out.
Answered(f) ==
    LET g == flow[f].gen
        goesOn == IsCurrent(g) /\ state[g] \in {"thinking", "rendering"} IN
    /\ flow[f].pc = "asking"
    /\ \/ goesOn /\ \E n \in 1..MaxPages : Reply(f, g, n, FALSE, [state EXCEPT ![g] = "rendering"])
       \/ /\ ~goesOn /\ Returns(f)
          /\ UNCHANGED <<generation, state, ai, platform, history>>

-----------------------------------------------------------------------------
(* Pages                                                                   *)

\* The page timer ticks.
PageTick(f) ==
    LET g == ai.pageTimer
        over == ai.manual \/ ~ai.running \/ ~IsCurrent(g) IN
    /\ flow[f].pc = "idle" /\ g # 0
    /\ IF ai.sending \/ over \/ ai.page + 1 >= ai.pages
       THEN /\ over \/ ~ai.sending
            /\ ai' = [ai EXCEPT !.pageTimer = 0]
            /\ UNCHANGED flow
       ELSE /\ ai' = [ai EXCEPT !.sending = TRUE, !.page = @ + 1]
            /\ flow' = [flow EXCEPT ![f] = [AtRest EXCEPT !.pc = "autoPage", !.gen = g,
                 !.reply = replies[g], !.last = ai.page + 2 >= ai.pages]]
    /\ UNCHANGED <<generation, state, platform, history>>

\* Faulty variant: the last page completes the session however it was sent.
CompletesUnshown(f) ==
    LET g == flow[f].gen IN
    /\ flow[f].pc = "autoPage" /\ Returns(f)
    /\ \E shown \in BOOLEAN :
          /\ IF shown /\ flow[f].last /\ IsCurrent(g) THEN Shown(f) ELSE UNCHANGED acked
          /\ state' = IF flow[f].last THEN Ended(g, "completed")
                      ELSE IF shown THEN state ELSE Ended(g, "failed")
    /\ ai' = [ai EXCEPT !.sending = FALSE]
    /\ UNCHANGED <<generation, platform, replies>>

\* The page was shown, or not, a session begun since makes it worthless, or
\* sending it threw: then the timer goes on.
AutoPage(f) ==
    LET g == flow[f].gen
        done == flow[f].last /\ IsCurrent(g) IN
    /\ flow[f].pc = "autoPage"
    /\ \/ /\ ai' = [ai EXCEPT !.sending = FALSE, !.pageTimer = IF flow[f].last THEN 0 ELSE @]
          /\ state' = IF done THEN Ended(g, "completed") ELSE state
          /\ IF done THEN Shown(f) ELSE UNCHANGED acked
          /\ Returns(f)
          /\ UNCHANGED <<generation, platform, replies>>
       \/ /\ ai' = [ai EXCEPT !.sending = FALSE] /\ Returns(f)
          /\ UNCHANGED <<generation, state, platform, history>>
       \/ IsCurrent(g) /\ FailsAndClears(f)

\* nextPageByTouchpad() and lastPageByTouchpad(): from now on the user turns
\* the pages, one being sent at a time; an only page is sent again.
Touchpad(f) ==
    LET g == ai.held
        manual == [ai EXCEPT !.manual = TRUE, !.pageTimer = 0]
        Sends(pc, page) ==
            flow' = [flow EXCEPT ![f] = [AtRest EXCEPT !.pc = pc, !.gen = g, !.to = page]] IN
    /\ flow[f].pc = "idle" /\ ai.running /\ IsCurrent(g)
    /\ \/ ai.pages = 1 /\ Sends("onePage", 0) /\ ai' = manual
       \/ \E page \in {ai.page + 1, IF ai.page = 0 THEN 0 ELSE ai.page - 1} :
             /\ ai.pages >= 2 /\ page < ai.pages /\ ~ai.sending
             /\ Sends("manualPage", page)
             /\ ai' = [manual EXCEPT !.sending = TRUE, !.page = page]
       \/ /\ ai.pages = 0 \/ ai.sending \/ ai.page + 1 >= ai.pages
          /\ ai.pages # 1
          /\ ai' = manual
          /\ UNCHANGED flow
    /\ UNCHANGED <<generation, state, platform, history>>

\* The page was shown, sending it threw, or it was not shown.
TouchedPage(f) ==
    LET g == flow[f].gen
        turns == flow[f].pc = "manualPage" IN
    /\ flow[f].pc \in {"manualPage", "onePage"}
    /\ \/ /\ ai' = IF turns THEN [ai EXCEPT !.sending = FALSE] ELSE ai
          /\ Returns(f)
          /\ UNCHANGED <<generation, state, platform, history>>
       \/ /\ IsCurrent(g) /\ (turns => ai.page = flow[f].to)
          /\ FailsAndClears(f)

-----------------------------------------------------------------------------
(* stopEvenAIByOS()                                                        *)

\* By the user, or when the recording limit is reached.
Stops(f, limit) ==
    LET g == ai.held IN
    /\ flow[f].pc = "idle"
    /\ IF IsCurrent(g)
       THEN /\ state' = Ended(g, "cancelled")
            /\ ai' = [ai EXCEPT !.limit = limit]
            /\ flow' = [flow EXCEPT ![f] = [AtRest EXCEPT !.pc = "cancelling", !.gen = g]]
       ELSE /\ UNCHANGED state
            /\ ai' = Cleared
            /\ Goes(f, "cleared")
    /\ UNCHANGED <<generation, platform, history>>

OsCancel(f) == Stops(f, ai.limit)

RecordingLimit(f) ==
    /\ ai.limit # 0
    /\ IF ai.receiving /\ IsCurrent(ai.limit) THEN Stops(f, 0)
       ELSE ai' = [ai EXCEPT !.limit = 0] /\ UNCHANGED <<generation, state, flow, platform, history>>

-----------------------------------------------------------------------------

AssistantNext ==
    \E f \in Flows :
        \/ OsStart(f) \/ BeginSession(f) \/ Listening(f) \/ StartThrows(f) \/ Started(f)
        \/ MicAnswers(f) \/ NativeStopped(f) \/ ClearEnds(f)
        \/ OsStop(f) \/ SpeechStopped(f) \/ Transcribed(f) \/ Answered(f)
        \/ SendThrows(f) \/ FirstPage(f) \/ PauseEnds(f) \/ LastPage(f)
        \/ PageTick(f) \/ AutoPage(f) \/ Touchpad(f) \/ TouchedPage(f)
        \/ OsCancel(f) \/ RecordingLimit(f)

AssistantSpec == AssistantInit /\ [][AssistantNext]_assistantVars

-----------------------------------------------------------------------------
(* Properties                                                              *)

\* At most one session is live: a session that another has superseded is
\* over, and no handler of it brings it back.
SupersededIsOver == \A g \in Generations : g < generation => Over(g)

\* The waits that end in a step of the session that is in this state.
Serving == [acquiringAudio |-> {"listening", "bootstrapping", "starting", "opening"},
            finalizingSpeech |-> {"stopping", "transcribing"},
            thinking |-> {"asking"}]

\* A session is not left behind: while audio is acquired, speech finalized or
\* an answer awaited, some handler waits whose return takes it further.
SomeoneServesIt ==
    \A g \in Generations : state[g] \in DOMAIN Serving =>
        \E f \in Flows : flow[f].gen = g /\ flow[f].pc \in Serving[state[g]]

\* A session that was given one answer is completed only when the glasses
\* have acknowledged the last page of it, whatever handlers of the sessions
\* before it clear or resume meanwhile.  (With two answers the page counts of
\* the one decide about the other.)
CompletedWasShown ==
    \A g \in Generations :
        state[g] = "completed" /\ replies[g] = 1 => <<g, 1>> \in acked

\* The states that may follow within one handler.
Later(s) ==
    CASE s = "idle" -> {"acquiringAudio"}
      [] s = "finalizingSpeech" -> Allowed(s) \cup {"rendering"}
      [] OTHER -> Allowed(s)

\* No state is left out or returned to, and the end is final, in whatever
\* order the handlers of a session and of its predecessors return.
LifecycleIsOrdered ==
    [][\A g \in Generations : state'[g] # state[g] => state'[g] \in Later(state[g])]_assistantVars

\* Violated.  The callbacks of a superseded session leave the controller of
\* the current one alone: a live session is held.
LiveSessionIsHeld == generation # 0 /\ ~Over(generation) => ai.held = generation

=============================================================================
