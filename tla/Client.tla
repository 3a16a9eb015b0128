------------------------------- MODULE Client -------------------------------
(***************************************************************************)
(* The page, public/app.js, with the engine's half of the audio path       *)
(* (Transport). start, initWsAudio and setupRtc are asynchronous: between  *)
(* two awaits anything else may run, and what runs after an await uses the *)
(* page's globals as they are then. An action runs up to the next await.   *)
(*                                                                         *)
(* Session s owns the microphone, playback context, websocket and peer     *)
(* connection number s. initWsAudio can run twice for it: run s by start,  *)
(* run MaxSessions + s by fallbackToWs, each with two contexts.            *)
(***************************************************************************)
EXTENDS Transport, FiniteSets

VARIABLES
  transport,  \* settings.transport; "any" while the page is idle and the user may
              \* still turn the knob to either
  starting,   \* start(): "idle", "audio" (awaiting initWsAudio), "broken" (thrown)
  starts,     \* sessions begun so far
  running,    \* the page's flag of that name
  page,       \* its globals: number of ws, mic, in, out, rtc, pc, player; 0 is null
  held,       \* the resources that are open: <<"mic", s>>, <<"in", run>>, ...
  rtcActive,  \* audio rides webrtc
  watchdog,   \* the 7 s timer is pending
  load,       \* initWsAudio: "idle", "in" or "out" (awaiting), "dead"
  modules,    \* the open audio contexts that have loaded their worklet module
  tap,        \* the capture context each run attached a mic-capture node to
  setup,      \* setupRtc: "none", "offer", "gather" or "answer" (awaiting), "done"
  answered,   \* the session whose answer an open peer connection has been given
  linked      \* open peer connections that are connected

loading  == <<load, tap>>
open     == <<held, modules, answered, linked>>
flags    == <<rtcActive, watchdog>>
pageVars == <<transport, starting, starts, running, page, flags, loading, open, setup>>
vars == <<socket, engineVars, pageVars>>

Runs     == 1..2 * MaxSessions
Fallback(s) == MaxSessions + s
Globals  == {"ws", "mic", "in", "out", "rtc", "pc", "player"}
Resource == Globals \ {"ws", "player"}
Blank    == [g \in Globals |-> 0]

TypeOK ==
  /\ TransportTypeOK
  /\ transport \in {"any", "ws", "webrtc"}
  /\ starting \in {"idle", "audio", "broken"}
  /\ starts \in 0..MaxSessions
  /\ running \in BOOLEAN /\ rtcActive \in BOOLEAN /\ watchdog \in BOOLEAN
  /\ page \in [Globals -> {0} \cup Runs]
  /\ held \subseteq Resource \X Runs
  /\ modules \subseteq held
  /\ load \in [Runs -> {"idle", "in", "out", "dead"}]
  /\ tap \in [Runs -> {0} \cup Runs]
  /\ setup \in [Sessions -> {"none", "offer", "gather", "answer", "done"}]
  /\ answered \in [Sessions -> {0} \cup Sessions]
  /\ linked \subseteq {p \in Sessions : <<"pc", p>> \in held}
  /\ running <=> page.ws # 0
  /\ rtcActive => running /\ page.pc = page.ws

-----------------------------------------------------------------------------
(* Slips of the code that the properties notice; no action uses them. *)

PeerKept == {<<"rtc", page.rtc>>}                     \* fallback leaves the pc open
MicKept == {<<g, page[g]>> : g \in Resource \ {"mic"}}   \* stop leaves the mic on
NoFallback == FALSE                                   \* the watchdog is not armed
RtcStaysActive ==                                     \* stop forgets rtcActive
  running' = FALSE /\ watchdog' = FALSE /\ UNCHANGED rtcActive
-----------------------------------------------------------------------------
(* The pieces the handlers are made of. *)

\* What stop and fallbackToWs close.
AllHeld == {<<g, page[g]>> : g \in Resource}
PeerHeld == {<<"pc", page.pc>>, <<"rtc", page.rtc>>}

\* gone is closed, new is made.
Replace(gone, new) ==
  /\ held' = (held \ gone) \cup new
  /\ modules' = modules \ gone
  /\ answered' = [p \in Sessions |-> IF <<"pc", p>> \in gone THEN 0 ELSE answered[p]]
  /\ linked' = {p \in linked : <<"pc", p>> \notin gone}

\* The flags and the timer that stop() resets.
FlagsDown == running' = FALSE /\ watchdog' = FALSE /\ rtcActive' = FALSE

\* stop(): nothing when not running, otherwise all globals are closed and cleared.
Stop(sockets) ==
  IF ~running
    THEN /\ socket' = sockets
         /\ UNCHANGED <<transport, running, page, open, flags>>
    ELSE /\ FlagsDown
         /\ transport' = "any"
         /\ socket' = [sockets EXCEPT ![page.ws] = ClosedSocket(@)]
         /\ Replace(AllHeld, {})
         /\ page' = Blank

\* initWsAudio up to its first await, as run k, in the globals p.
BeginLoad(k, p) ==
  /\ page' = [p EXCEPT !.in = k]
  /\ load' = [load EXCEPT ![k] = "in"]
  /\ UNCHANGED tap

\* start() behind initWsAudio: the websocket and the end of the start.
OpenSocket(s, p) ==
  /\ page' = [p EXCEPT !.ws = s]
  /\ socket' = [socket EXCEPT ![s] = "connecting"]
  /\ running' = TRUE
  /\ starting' = "idle"

\* fallbackToWs(), for the session the page is in now.
FallBack ==
  IF ~running \/ ~rtcActive
    THEN UNCHANGED <<wsAudio, flags, page, open, loading>>
    ELSE /\ rtcActive' = FALSE /\ watchdog' = FALSE
         /\ wsAudio' = [wsAudio EXCEPT ![page.ws] = TRUE]
         /\ Replace(PeerHeld, {<<"in", Fallback(page.ws)>>})
         /\ BeginLoad(Fallback(page.ws), [page EXCEPT !.pc = 0, !.rtc = 0])

-----------------------------------------------------------------------------
Init ==
  /\ TransportInit
  /\ transport = "any" /\ starting = "idle" /\ starts = 0 /\ running = FALSE
  /\ page = Blank
  /\ rtcActive = FALSE /\ watchdog = FALSE
  /\ held = {} /\ modules = {}
  /\ load = [k \in Runs |-> "idle"] /\ tap = [k \in Runs |-> 0]
  /\ setup = [s \in Sessions |-> "none"]
  /\ answered = [s \in Sessions |-> 0] /\ linked = {}

(* The user. *)

\* start() once the user grants the microphone; it reads the knob. Until then, and
\* when it is denied, nothing changes.
\* Bound: the engine is done with the page's earlier sessions. What is left of them
\* in the page may be not.
Start ==
  LET s == starts + 1
      p == [page EXCEPT !.mic = s]
  IN
  /\ ~running /\ starting = "idle" /\ starts < MaxSessions
  /\ \A t \in 1..starts : EngineDone(t)
  /\ starts' = s
  /\ \/ /\ transport' = "ws" /\ starting' = "audio"
        /\ Replace({}, {<<"mic", s>>, <<"in", s>>})
        /\ BeginLoad(s, p)
        /\ UNCHANGED <<socket, running>>
     \/ /\ transport' = "webrtc"
        /\ Replace({}, {<<"mic", s>>, <<"rtc", s>>})
        /\ OpenSocket(s, [p EXCEPT !.rtc = s])
        /\ UNCHANGED loading
  /\ UNCHANGED <<engineVars, flags, setup>>

\* The button, or the transport knob: turning it stops a session that runs.
PressStop ==
  /\ running
  /\ Stop(socket)
  /\ UNCHANGED <<engineVars, starting, starts, loading, setup>>

\* The knob turned while start() waits: nothing is running yet to be stopped.
TurnKnob ==
  /\ starting = "audio" /\ ~running
  /\ transport' \in {"ws", "webrtc"} \ {transport}
  /\ UNCHANGED <<socket, engineVars, starting, starts, running, page, flags, loading, open, setup>>

(* initWsAudio. *)

\* addModule has loaded its worklet into the context of run k, if that is still
\* open; the node is made in the context the global g holds by now, which needs it.
Loaded(g, k) == modules \cup ({<<g, k>>} \cap held)
NodeMade(g, k) == <<g, page[g]>> \in Loaded(g, k)

\* It throws: start() never enables its button again, a fallback is left without
\* audio.
LoadDies(k) ==
  /\ load' = [load EXCEPT ![k] = "dead"]
  /\ starting' = IF k \in Sessions THEN "broken" ELSE starting
  /\ UNCHANGED <<socket, running, page, held, modules, tap>>

\* Capture, and the playback context.
MicWorkletLoads(k) ==
  /\ load[k] = "in"
  /\ IF NodeMade("in", k)
       THEN /\ tap' = [tap EXCEPT ![k] = page.in]
            /\ page' = [page EXCEPT !.out = k]
            /\ held' = held \cup {<<"out", k>>}
            /\ modules' = Loaded("in", k)
            /\ load' = [load EXCEPT ![k] = "out"]
            /\ UNCHANGED <<socket, running, starting>>
       ELSE LoadDies(k)
  /\ UNCHANGED <<engineVars, transport, starts, flags, setup, answered, linked>>

\* The player, and the end of start.
PlayerWorkletLoads(k) ==
  LET p == [page EXCEPT !.player = page.out] IN
  /\ load[k] = "out"
  /\ IF NodeMade("out", k)
       THEN /\ load' = [load EXCEPT ![k] = "idle"]
            /\ modules' = Loaded("out", k)
            /\ IF k \in Sessions
                 THEN OpenSocket(k, p)
                 ELSE page' = p /\ UNCHANGED <<socket, running, starting>>
            /\ UNCHANGED <<held, tap>>
       ELSE LoadDies(k)
  /\ UNCHANGED <<engineVars, transport, starts, flags, setup, answered, linked>>

\* A worklet cannot be fetched.
WorkletFails(k) ==
  /\ load[k] \in {"in", "out"}
  /\ LoadDies(k)
  /\ UNCHANGED <<engineVars, transport, starts, flags, setup, answered, linked>>

(* The websocket. *)

\* onclose or onerror, of whichever session: a connection is lost or refused, or
\* one that stop() closed is closed at last.
SocketCloses(s) ==
  /\ socket[s] \in {"connecting", "open", "closing"}
  /\ Stop([socket EXCEPT ![s] = "closed"])
  /\ UNCHANGED <<engineVars, starting, starts, loading, setup>>

\* The websocket opens and the session message arrives: setupRtc up to its first
\* await. A page that has closed the socket meanwhile hears nothing.
SessionMessage(s) ==
  /\ Accepts(s)
  /\ IF transport = "webrtc" /\ socket[s] = "connecting"
       THEN /\ rtcActive' = TRUE /\ watchdog' = TRUE
            /\ page' = [page EXCEPT !.pc = s]
            /\ Replace({}, {<<"pc", s>>})
            /\ setup' = [setup EXCEPT ![s] = "offer"]
       ELSE UNCHANGED <<flags, page, open, setup>>
  /\ UNCHANGED <<transport, starting, starts, running, loading>>

(* setupRtc. *)

\* What every step of it leaves alone.
SetupFrame ==
  UNCHANGED <<socket, session, gatewayWs, gwSock, call, transport, starting, starts, running>>

\* The promise chain rejects: catch falls back, in the session of that moment.
SetupFails(s) ==
  /\ setup' = [setup EXCEPT ![s] = "done"]
  /\ FallBack
  /\ UNCHANGED sdp

\* createOffer and setLocalDescription; they never settle on a closed connection.
OfferMade(s) ==
  /\ setup[s] = "offer" /\ <<"pc", s>> \in held
  /\ \/ /\ setup' = [setup EXCEPT ![s] = "gather"]
        /\ UNCHANGED <<wsAudio, flags, page, open, loading, offer, sdp>>
     \/ SetupFails(s) /\ UNCHANGED offer
  /\ SetupFrame

HasOffer(p) == p # 0 /\ setup[p] # "offer"

\* Gathering is complete or its 3 s are over: post what the global pc offers.
Gathered(s) ==
  /\ setup[s] = "gather"
  /\ IF HasOffer(page.pc)
       THEN /\ setup' = [setup EXCEPT ![s] = "answer"]
            /\ offer' = [offer EXCEPT ![s] = "posted"]
            /\ sdp' = [sdp EXCEPT ![s] = page.pc]
            /\ UNCHANGED <<wsAudio, flags, page, open, loading>>
       ELSE SetupFails(s) /\ UNCHANGED offer
  /\ SetupFrame

\* The answer goes to the global pc, which may reject it.
AnswerComes(s) ==
  /\ setup[s] = "answer" /\ offer[s] = "answered"
  /\ HasOffer(page.pc) /\ answered[page.pc] = 0
  /\ setup' = [setup EXCEPT ![s] = "done"]
  /\ answered' = [answered EXCEPT ![page.pc] = s]
  /\ offer' = [offer EXCEPT ![s] = "none"]
  /\ UNCHANGED <<wsAudio, flags, page, held, modules, linked, loading, sdp>>
  /\ SetupFrame

\* The request fails, is refused, or its answer is of no use.
AnswerFails(s) ==
  /\ setup[s] = "answer"
  /\ SetupFails(s)
  /\ offer' = [offer EXCEPT ![s] = IF @ = "answered" THEN "none" ELSE @]
  /\ SetupFrame

(* The peer connection. *)

\* Media can flow between peer connection p and the gateway's call c.
Matched(p, c) == c # 0 /\ sdp[c] = p /\ call[c] = "up"

Connected(p) ==
  /\ p \notin linked /\ Matched(p, answered[p])
  /\ linked' = linked \cup {p}
  /\ watchdog' = FALSE
  /\ UNCHANGED <<socket, engineVars, transport, starting, starts, running, page, rtcActive,
                 loading, held, modules, setup, answered>>

\* What follows from a state of the peer connection or a timer alone.
PageFrame ==
  UNCHANGED <<socket, session, offer, sdp, gatewayWs, gwSock, call,
              transport, starting, starts, running, setup>>

\* The state "failed"; "disconnected" is only shown.
Failed(p) ==
  /\ answered[p] # 0
  /\ FallBack
  /\ PageFrame

\* The condition of the watchdog's callback.
Unconnected == page.pc # 0 /\ page.pc \notin linked

Watchdog ==
  /\ watchdog
  /\ IF Unconnected
       THEN FallBack
       ELSE /\ watchdog' = FALSE
            /\ UNCHANGED <<wsAudio, rtcActive, page, open, loading>>
  /\ PageFrame

-----------------------------------------------------------------------------
Engine(s) == TransportStep(s) /\ UNCHANGED pageVars

User == Start \/ PressStop \/ TurnKnob

Next ==
  \/ User \/ Watchdog
  \/ \E k \in Runs : MicWorkletLoads(k) \/ PlayerWorkletLoads(k) \/ WorkletFails(k)
  \/ \E s \in Sessions :
       \/ Engine(s) \/ SocketCloses(s) \/ SessionMessage(s)
       \/ OfferMade(s) \/ Gathered(s) \/ AnswerComes(s) \/ AnswerFails(s)
       \/ Connected(s) \/ Failed(s)

Spec == Init /\ [][Next]_vars

\* A call whose peer connection is gone, or whose engine is, notices.
CallNotices(s) == ~(gwSock[s] = "open" /\ <<"pc", sdp[s]>> \in held) /\ GatewayHangsUp(s)

\* A peer connection whose call is over notices.
PeerNotices(p) == ~Matched(p, answered[p]) /\ Failed(p)

\* What is under way at the engine and the gateway.
EngineProceeds(s) ==
  /\ UseWsAudio(s) \/ SessionEnds(s) \/ GatewayAnswers(s) \/ CallNotices(s)
     \/ GatewaySocketCloses(s)
  /\ UNCHANGED pageVars

\* A connection attempt succeeds or fails, and a close completes.
SocketProceeds(s) ==
  SessionMessage(s) \/ (socket[s] \in {"connecting", "closing"} /\ SocketCloses(s))

WorkletProceeds(k) == MicWorkletLoads(k) \/ PlayerWorkletLoads(k) \/ WorkletFails(k)

\* The user, the network and the gateway owe nothing; setupRtc may hang.
FairSpec ==
  /\ Spec
  /\ WF_vars(Watchdog)
  /\ WF_vars(\E k \in Runs : WorkletProceeds(k))
  /\ WF_vars(\E s \in Sessions : EngineProceeds(s))
  /\ WF_vars(\E s \in Sessions : SocketProceeds(s))
  /\ WF_vars(\E p \in Sessions : PeerNotices(p))

-----------------------------------------------------------------------------
(* Properties. *)

\* The audio of session s comes out of the page: through the player from the
\* websocket the engine is using, or from the peer connection of the call the
\* engine is using, through the graph that start() made.
Heard(s) ==
  \/ ~gatewayWs[s] /\ socket[s] = "open" /\ <<"out", page.player>> \in held
  \/ /\ gatewayWs[s] /\ gwSock[s] = "open"
     /\ page.pc \in linked /\ Matched(page.pc, s) /\ answered[page.pc] = s
     /\ <<"rtc", page.rtc>> \in held

\* The transport knob was turned while start() waited for its worklets, so that the
\* session got both kinds of audio.
Crossed(s) == (load[s] # "idle" \/ tap[s] # 0) /\ setup[s] # "none"
NoneCrossed == \A s \in Sessions : ~Crossed(s)

\* A fallback of an earlier session woke up in the globals of a later one.
Stale == \E k \in Runs : tap[k] \notin {0, k}

\* A session that keeps running ends up with audio the user hears, whatever becomes
\* of the gateway, of ICE and of a late attach. Excepted are a fallback whose
\* worklets could not be loaded and a knob turned during start(). ("don't strand
\* the user", app.js:225-226)
NobodyIsStranded ==
  <>[]running =>
    <>[](running /\ (\/ Heard(page.ws) \/ load[Fallback(page.ws)] = "dead"
                     \/ Crossed(page.ws)))

\* The capture nodes that post the microphone to the websocket.
Taps == {k \in Runs : tap[k] # 0 /\ <<"in", tap[k]>> \in held}

\* Two things double the microphone: the knob turned while start() waits for its
\* worklets (Crossed: the websocket and a peer connection both carry it, which
\* SocketCarriesJsonOnly reports), and a fallback of a stopped session that wakes up
\* in a later one (Stale: a second capture node on the same stream, app.js:171-174).
\* Without them it travels one way, however fallback, late answers and clicks fall:
\* over one capture node or one connected peer connection.
OneMicPath ==
  running /\ NoneCrossed /\ ~Stale => Cardinality(Taps) + Cardinality(linked) <= 1

\* While audio rides a peer connection no capture node posts to the websocket.
\* ("audio rides a PeerConnection through the Go/Pion gateway (Opus @ 48 kHz); the
\* WS carries JSON only.", app.js:3-4) Violated: see Crossed.
SocketCarriesJsonOnly ==
  running /\ page.pc \in linked /\ socket[page.ws] = "open" => Taps = {}

\* When the page is idle again the microphone and every connection are released;
\* and every audio context, unless some session set up its audio twice.
NothingLeaks ==
  ~running /\ starting = "idle" =>
    \A r \in held : r[1] \in {"in", "out"} /\ (Stale \/ ~NoneCrossed)
=============================================================================
