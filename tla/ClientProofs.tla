---------------------------- MODULE ClientProofs ----------------------------
(***************************************************************************)
(* Proofs of the safety of the page and of the sessions it starts, for     *)
(* every number of sessions: whenever the page, the engine and the gateway *)
(* act, and whichever continuation of setupRtc or initWsAudio wakes up     *)
(* late, an ended session is left without a gateway, the microphone takes  *)
(* one path and an idle page holds nothing.                                *)
(***************************************************************************)
EXTENDS Client, FiniteSetTheorems, TLAPS

gatewaySide == <<session, gatewayWs, gwSock>>

\* The engine forgets a gateway only together with its socket, so that a session that
\* ends still finds the socket it has to close.
Attached ==
  /\ session \in [Sessions -> {"none", "open", "gone"}]
  /\ gatewayWs \in [Sessions -> BOOLEAN]
  /\ gwSock \in [Sessions -> {"none", "open", "closing"}]
  /\ \A s \in Sessions : gwSock[s] = "open" => gatewayWs[s]

DetachInv == Attached /\ GoneSessionsAreDetached

LEMMA InitDetached == Init => DetachInv
BY DEF Init, TransportInit, DetachInv, Attached, GoneSessionsAreDetached

\* Accepts is the only step of a session's start.
LEMMA AcceptsDetached ==
  ASSUME DetachInv, NEW s \in Sessions, Accepts(s)
  PROVE  DetachInv'
BY DEF Accepts, DetachInv, Attached, GoneSessionsAreDetached

LEMMA TransportDetached ==
  ASSUME DetachInv, NEW s \in Sessions, TransportStep(s)
  PROVE  DetachInv'
<1> USE DEF DetachInv, Attached, GoneSessionsAreDetached
<1>1. CASE UseWsAudio(s)
  BY <1>1 DEF UseWsAudio, GatewayHungUp, Detached, ClosedSocket
<1>2. CASE SessionEnds(s)
  BY <1>2 DEF SessionEnds, GatewayHungUp, ClosedSocket
<1>3. CASE Dials(s)
  BY <1>3 DEF Dials, Known
<1>4. CASE GatewayAnswers(s)
  BY <1>4 DEF GatewayAnswers
<1>5. CASE GatewayHangsUp(s)
  BY <1>5 DEF GatewayHangsUp
<1>6. CASE GatewaySocketCloses(s)
  BY <1>6 DEF GatewaySocketCloses, Detached
<1> QED BY <1>1, <1>2, <1>3, <1>4, <1>5, <1>6 DEF TransportStep

\* Nothing else the page does reaches that side of the engine.
LEMMA PageSteps ==
  ASSUME Next
  PROVE  \/ UNCHANGED gatewaySide
         \/ \E s \in Sessions : Accepts(s) \/ TransportStep(s)
<1> USE DEF gatewaySide, engineVars
<1>1. CASE User
  BY <1>1 DEF User, Start, PressStop, TurnKnob
<1>2. CASE Watchdog
  BY <1>2 DEF Watchdog, PageFrame
<1>3. ASSUME NEW k \in Runs, MicWorkletLoads(k) \/ PlayerWorkletLoads(k) \/ WorkletFails(k)
      PROVE  UNCHANGED gatewaySide
  BY <1>3 DEF MicWorkletLoads, PlayerWorkletLoads, WorkletFails
<1>4. ASSUME NEW s \in Sessions, Engine(s) \/ SessionMessage(s)
      PROVE  Accepts(s) \/ TransportStep(s)
  BY <1>4 DEF Engine, SessionMessage
<1>5. ASSUME NEW s \in Sessions, SocketCloses(s)
      PROVE  UNCHANGED gatewaySide
  BY <1>5 DEF SocketCloses
<1>6. ASSUME NEW s \in Sessions,
             OfferMade(s) \/ Gathered(s) \/ AnswerComes(s) \/ AnswerFails(s)
      PROVE  UNCHANGED gatewaySide
  BY <1>6 DEF OfferMade, Gathered, AnswerComes, AnswerFails, SetupFrame
<1>7. ASSUME NEW s \in Sessions, Connected(s) \/ Failed(s)
      PROVE  UNCHANGED gatewaySide
  BY <1>7 DEF Connected, Failed, PageFrame
<1> QED BY <1>1, <1>2, <1>3, <1>4, <1>5, <1>6, <1>7 DEF Next

\* Whatever the page does, a session that has ended has no open gateway socket and is
\* never given one.
THEOREM EndedSessionsAreDetached == Spec => []GoneSessionsAreDetached
<1>1. Init => DetachInv
  BY InitDetached
<1>2. DetachInv /\ [Next]_vars => DetachInv'
  <2>1. ASSUME DetachInv, UNCHANGED gatewaySide
        PROVE  DetachInv'
    BY <2>1 DEF DetachInv, Attached, GoneSessionsAreDetached, gatewaySide
  <2>2. UNCHANGED vars => UNCHANGED gatewaySide
    BY DEF vars, engineVars, gatewaySide
  <2> QED BY <2>1, <2>2, PageSteps, AcceptsDetached, TransportDetached
<1>3. DetachInv => GoneSessionsAreDetached
  BY DEF DetachInv
<1> QED BY <1>1, <1>2, <1>3, PTL DEF Spec

-----------------------------------------------------------------------------
(***************************************************************************)
(* The page. Every run k of initWsAudio begins at most once, and what runs *)
(* after an await finds the globals of the session that is on by then; the *)
(* invariant says how those globals, the open resources and the pending    *)
(* continuations hang together.                                            *)
(***************************************************************************)

Begun(k) == load[k] # "idle" \/ tap[k] # 0

\* The globals are those of the last session, and blank when the page is idle.
Globe ==
  /\ running => page.ws = starts /\ starting = "idle"
  /\ ~running => page.ws = 0 /\ page.rtc = 0
  /\ ~running /\ starting = "idle" => page = Blank
  /\ page.pc \in {0, page.ws}
  /\ rtcActive <=> page.pc # 0
  /\ page.in \in {0, starts, Fallback(starts)}

\* Only the session that is on has a websocket on its way, and no peer connection yet.
Dialling ==
  \A s \in Sessions : socket[s] = "connecting" => page.ws = s /\ page.pc = 0

\* The microphone and the connections that are open are those the globals name, so
\* that stop() reaches them. Only an open peer connection has an answer.
Owned ==
  /\ \A g \in {"mic", "rtc", "pc"}, r \in Runs : <<g, r>> \in held => r = page[g]
  /\ page.pc # 0 => <<"pc", page.pc>> \in held
  /\ \A p \in Sessions : answered[p] # 0 => <<"pc", p>> \in held

\* How far each run has come. A fallback is still to come for a session that has not
\* begun, that is dialling, or that has its peer connection.
Loads ==
  /\ \A k \in Runs : (load[k] = "in" => tap[k] = 0) /\ (load[k] = "out" => tap[k] # 0)
  /\ \A s \in Sessions : load[s] \in {"in", "out"} => starting = "audio" /\ s = starts
  /\ page.in # 0 => Begun(page.in)
  /\ page.pc # 0 => setup[page.pc] # "none"
  /\ \A s \in Sessions : s > starts => ~Begun(s)
  /\ \A s \in Sessions :
       \/ s > starts \/ (starting = "audio" /\ s = starts)
       \/ socket[s] = "connecting" \/ s = page.pc
       => ~Begun(Fallback(s))

\* Unless a fallback woke up in a later session or a session got both kinds of audio,
\* the open contexts are those the globals name, both of one run.
Regular ==
  ~Stale /\ NoneCrossed =>
    /\ page.out \in {0, page.in}
    /\ \A g \in {"in", "out"}, r \in Runs : <<g, r>> \in held => r = page[g]

PageShape == Globe /\ Dialling /\ Owned /\ Loads /\ Regular
PageInv == TypeOK /\ PageShape

\* A fallback has a number of its own.
LEMMA RunNumbers ==
  /\ Sessions \subseteq Runs /\ 0 \notin Runs
  /\ \A s \in Sessions : Fallback(s) \in Runs /\ Fallback(s) \notin Sessions
  /\ \A s, t \in Sessions : Fallback(s) = Fallback(t) => s = t
BY TransportAssumption DEF Sessions, Runs, Fallback

(* Types. *)

LEMMA EngineTypes ==
  ASSUME TransportTypeOK, NEW s \in Sessions, TransportStep(s) \/ Accepts(s)
  PROVE  TransportTypeOK'
<1> USE DEF TransportTypeOK, SocketState
<1>1. CASE UseWsAudio(s)
  BY <1>1 DEF UseWsAudio, GatewayHungUp, Detached, ClosedSocket
<1>2. CASE SessionEnds(s)
  BY <1>2 DEF SessionEnds, GatewayHungUp, ClosedSocket
<1>3. CASE Dials(s)
  <2>1. UNCHANGED <<socket, session, wsAudio>>
    BY <1>3 DEF Dials, Known
  <2>2. offer' \in [Sessions -> {"none", "posted", "attached", "answered"}]
    BY <1>3 DEF Dials
  <2>3. sdp' \in [Sessions -> {0} \cup Sessions]
    BY <1>3 DEF Dials
  <2>4. gatewayWs' \in [Sessions -> BOOLEAN]
    <3>1. \/ gatewayWs' = gatewayWs
          \/ gatewayWs' = [gatewayWs EXCEPT ![s] = TRUE]
      BY <1>3 DEF Dials
    <3> QED BY <3>1
  <2>5. gwSock' \in [Sessions -> {"none", "open", "closing"}]
    BY <1>3 DEF Dials
  <2>6. call' \in [Sessions -> {"none", "setup", "up", "over"}]
    BY <1>3 DEF Dials
  <2> QED BY <2>1, <2>2, <2>3, <2>4, <2>5, <2>6
<1>4. CASE GatewayAnswers(s)
  BY <1>4 DEF GatewayAnswers
<1>5. CASE GatewayHangsUp(s)
  BY <1>5 DEF GatewayHangsUp
<1>6. CASE GatewaySocketCloses(s)
  BY <1>6 DEF GatewaySocketCloses, Detached
<1>7. CASE Accepts(s)
  BY <1>7 DEF Accepts
<1> QED BY <1>1, <1>2, <1>3, <1>4, <1>5, <1>6, <1>7 DEF TransportStep

\* Closing takes what hangs on a resource along.
LEMMA ReplaceTypes ==
  ASSUME TypeOK, NEW gone, NEW new \in SUBSET (Resource \X Runs), Replace(gone, new)
  PROVE  /\ held' \subseteq Resource \X Runs
         /\ modules' \subseteq held'
         /\ answered' \in [Sessions -> {0} \cup Sessions]
         /\ linked' \subseteq {p \in Sessions : <<"pc", p>> \in held'}
BY DEF TypeOK, Replace

\* stop(), on whatever the sockets have become.
LEMMA StopTypes ==
  ASSUME TypeOK, Globe, NEW sockets \in [Sessions -> SocketState], Stop(sockets),
         UNCHANGED <<engineVars, starting, starts, loading, setup>>
  PROVE  TypeOK'
<1>1. TransportTypeOK'
  <2>1. socket' \in [Sessions -> SocketState]
    BY DEF Stop, FlagsDown, ClosedSocket, SocketState
  <2> QED BY <2>1 DEF TypeOK, TransportTypeOK, engineVars
<1>2. CASE ~running
  BY <1>1, <1>2 DEF TypeOK, Stop, open, flags, loading
<1>3. CASE running
  <2>1. held' \subseteq Resource \X Runs /\ modules' \subseteq held'
        /\ answered' \in [Sessions -> {0} \cup Sessions]
        /\ linked' \subseteq {p \in Sessions : <<"pc", p>> \in held'}
    <3>1. Replace(AllHeld, {})
      BY <1>3 DEF Stop
    <3> QED BY <3>1, ReplaceTypes
  <2>2. page' \in [Globals -> {0} \cup Runs] /\ page'.ws = 0 /\ page'.pc = 0
    BY <1>3 DEF Stop, Blank, Globals
  <2>3. transport' = "any" /\ running' = FALSE /\ rtcActive' = FALSE /\ watchdog' = FALSE
    BY <1>3 DEF Stop, FlagsDown
  <2>4. running' <=> page'.ws # 0
    BY <2>2, <2>3
  <2>5. UNCHANGED <<starting, starts, load, tap, setup>>
    BY DEF loading
  <2>6. /\ transport' \in {"any", "ws", "webrtc"} /\ starting' \in {"idle", "audio", "broken"}
        /\ starts' \in 0..MaxSessions /\ running' \in BOOLEAN /\ rtcActive' \in BOOLEAN
        /\ watchdog' \in BOOLEAN
    BY <2>3, <2>5 DEF TypeOK
  <2>7. /\ tap' \in [Runs -> {0} \cup Runs] /\ load' \in [Runs -> {"idle", "in", "out", "dead"}]
        /\ setup' \in [Sessions -> {"none", "offer", "gather", "answer", "done"}]
    BY <2>5 DEF TypeOK
  <2> QED BY <1>1, <2>1, <2>2, <2>3, <2>4, <2>6, <2>7 DEF TypeOK
<1> QED BY <1>2, <1>3

\* fallbackToWs(), whoever calls it.
LEMMA FallBackTypes ==
  ASSUME TypeOK, Globe, FallBack,
         socket' = socket, starts' = starts, starting' = starting, running' = running,
         transport' = transport,
         UNCHANGED <<session, gatewayWs, gwSock, call>>,
         offer' \in [Sessions -> {"none", "posted", "attached", "answered"}],
         sdp' \in [Sessions -> {0} \cup Sessions],
         setup' \in [Sessions -> {"none", "offer", "gather", "answer", "done"}]
  PROVE  TypeOK'
<1>1. CASE ~running \/ ~rtcActive
  BY <1>1 DEF TypeOK, TransportTypeOK, FallBack, open, flags, loading
<1>2. CASE running /\ rtcActive
  <2>1. page.ws \in Sessions /\ Fallback(page.ws) \in Runs
    <3>1. page.ws = starts /\ starts # 0 /\ starts \in 0..MaxSessions
      BY <1>2 DEF Globe, TypeOK
    <3>2. page.ws \in Sessions
      BY <3>1, TransportAssumption DEF Sessions
    <3> QED BY <3>2, RunNumbers
  <2>2. held' \subseteq Resource \X Runs /\ modules' \subseteq held'
        /\ answered' \in [Sessions -> {0} \cup Sessions]
        /\ linked' \subseteq {p \in Sessions : <<"pc", p>> \in held'}
    <3>1. Replace(PeerHeld, {<<"in", Fallback(page.ws)>>})
      BY <1>2 DEF FallBack
    <3>2. {<<"in", Fallback(page.ws)>>} \in SUBSET (Resource \X Runs)
      BY <2>1 DEF Resource, Globals
    <3> QED BY <3>1, <3>2, ReplaceTypes
  <2>3. page' \in [Globals -> {0} \cup Runs] /\ page'.ws = page.ws
    <3>1. page' = [[page EXCEPT !.pc = 0, !.rtc = 0] EXCEPT !.in = Fallback(page.ws)]
      BY <1>2 DEF FallBack, BeginLoad
    <3>2. page \in [Globals -> {0} \cup Runs]
      BY DEF TypeOK
    <3> QED BY <3>1, <3>2, <2>1 DEF Globals
  <2>4. load' \in [Runs -> {"idle", "in", "out", "dead"}] /\ tap' = tap
    BY <1>2 DEF FallBack, BeginLoad, TypeOK
  <2>5. wsAudio' \in [Sessions -> BOOLEAN] /\ ~rtcActive' /\ ~watchdog'
    BY <1>2 DEF FallBack, TypeOK, TransportTypeOK
  <2>6. TransportTypeOK'
    BY <2>5 DEF TypeOK, TransportTypeOK
  <2>7. running' <=> page'.ws # 0
    BY <2>3 DEF TypeOK
  <2>8. /\ transport' \in {"any", "ws", "webrtc"} /\ starting' \in {"idle", "audio", "broken"}
        /\ starts' \in 0..MaxSessions /\ running' \in BOOLEAN /\ rtcActive' \in BOOLEAN
        /\ watchdog' \in BOOLEAN
    BY <2>5, <1>2 DEF TypeOK, FallBack
  <2>9. tap' \in [Runs -> {0} \cup Runs]
    BY <2>4 DEF TypeOK
  <2> QED BY <2>2, <2>3, <2>4, <2>5, <2>6, <2>7, <2>8, <2>9 DEF TypeOK
<1> QED BY <1>1, <1>2

LEMMA StartTypes ==
  ASSUME TypeOK, Globe, Start
  PROVE  TypeOK'
<1> DEFINE s == starts + 1
<1>0. s \in Sessions /\ s \in Runs /\ s # 0
  BY TransportAssumption, RunNumbers DEF Start, TypeOK, Sessions
<1>1. /\ starts' \in 0..MaxSessions /\ UNCHANGED <<engineVars, rtcActive, watchdog, setup>>
      /\ ~running /\ ~rtcActive /\ starting = "idle" /\ page = Blank
  BY <1>0 DEF Start, flags, TypeOK, Sessions, Globe
<1>2. CASE /\ transport' = "ws" /\ starting' = "audio"
           /\ Replace({}, {<<"mic", s>>, <<"in", s>>})
           /\ BeginLoad(s, [page EXCEPT !.mic = s])
           /\ UNCHANGED <<socket, running>>
  <2>1. /\ held' \subseteq Resource \X Runs /\ modules' \subseteq held'
        /\ answered' \in [Sessions -> {0} \cup Sessions]
        /\ linked' \subseteq {p \in Sessions : <<"pc", p>> \in held'}
    <3>1. {<<"mic", s>>, <<"in", s>>} \in SUBSET (Resource \X Runs)
      BY <1>0 DEF Resource, Globals
    <3> QED BY <3>1, <1>2, ReplaceTypes
  <2>2. page' \in [Globals -> {0} \cup Runs] /\ page'.ws = 0
    BY <1>0, <1>1, <1>2 DEF BeginLoad, Blank, Globals
  <2>3. load' \in [Runs -> {"idle", "in", "out", "dead"}] /\ tap' \in [Runs -> {0} \cup Runs]
    BY <1>2 DEF BeginLoad, TypeOK
  <2>4. TransportTypeOK'
    BY <1>1, <1>2 DEF TypeOK, TransportTypeOK, engineVars
  <2>5. running' <=> page'.ws # 0
    BY <1>1, <1>2, <2>2
  <2>6. /\ transport' \in {"any", "ws", "webrtc"} /\ starting' \in {"idle", "audio", "broken"}
        /\ running' \in BOOLEAN /\ rtcActive' \in BOOLEAN /\ watchdog' \in BOOLEAN
        /\ setup' \in [Sessions -> {"none", "offer", "gather", "answer", "done"}]
    BY <1>1, <1>2 DEF TypeOK
  <2> QED BY <1>1, <2>1, <2>2, <2>3, <2>4, <2>5, <2>6 DEF TypeOK
<1>3. CASE /\ transport' = "webrtc"
           /\ Replace({}, {<<"mic", s>>, <<"rtc", s>>})
           /\ OpenSocket(s, [[page EXCEPT !.mic = s] EXCEPT !.rtc = s])
           /\ UNCHANGED loading
  <2>1. /\ held' \subseteq Resource \X Runs /\ modules' \subseteq held'
        /\ answered' \in [Sessions -> {0} \cup Sessions]
        /\ linked' \subseteq {p \in Sessions : <<"pc", p>> \in held'}
    <3>1. {<<"mic", s>>, <<"rtc", s>>} \in SUBSET (Resource \X Runs)
      BY <1>0 DEF Resource, Globals
    <3> QED BY <3>1, <1>3, ReplaceTypes
  <2>2. page' \in [Globals -> {0} \cup Runs] /\ page'.ws = s
    BY <1>0, <1>1, <1>3 DEF OpenSocket, Blank, Globals
  <2>3. load' \in [Runs -> {"idle", "in", "out", "dead"}] /\ tap' \in [Runs -> {0} \cup Runs]
    BY <1>3 DEF loading, TypeOK
  <2>4. TransportTypeOK'
    <3>1. socket' \in [Sessions -> SocketState]
      BY <1>3 DEF OpenSocket, TypeOK, TransportTypeOK, SocketState
    <3> QED BY <1>1, <3>1 DEF TypeOK, TransportTypeOK, engineVars
  <2>5. running' = TRUE /\ starting' = "idle"
    BY <1>3 DEF OpenSocket
  <2>6. /\ transport' \in {"any", "ws", "webrtc"} /\ starting' \in {"idle", "audio", "broken"}
        /\ running' \in BOOLEAN /\ rtcActive' \in BOOLEAN /\ watchdog' \in BOOLEAN
        /\ setup' \in [Sessions -> {"none", "offer", "gather", "answer", "done"}]
    BY <1>1, <1>3, <2>5 DEF TypeOK
  <2>7. ~rtcActive'
    BY <1>1
  <2>8. running' <=> page'.ws # 0
    BY <2>2, <2>5, <1>0
  <2> QED BY <1>1, <2>1, <2>2, <2>3, <2>4, <2>6, <2>7, <2>8 DEF TypeOK
<1> QED BY <1>2, <1>3 DEF Start

LEMMA WorkletTypes ==
  ASSUME TypeOK, Globe, Loads, NEW k \in Runs,
         MicWorkletLoads(k) \/ PlayerWorkletLoads(k) \/ WorkletFails(k)
  PROVE  TypeOK'
<1>1. UNCHANGED <<engineVars, transport, starts, rtcActive, watchdog, setup, answered, linked>>
  BY DEF MicWorkletLoads, PlayerWorkletLoads, WorkletFails, flags
<1>2. load' \in [Runs -> {"idle", "in", "out", "dead"}]
  BY DEF MicWorkletLoads, PlayerWorkletLoads, WorkletFails, LoadDies, TypeOK
<1>3. tap' \in [Runs -> {0} \cup Runs]
  <2>1. page.in \in {0} \cup Runs
    BY DEF TypeOK, Globals
  <2>2. tap' = tap \/ tap' = [tap EXCEPT ![k] = page.in]
    BY DEF MicWorkletLoads, PlayerWorkletLoads, WorkletFails, LoadDies
  <2> QED BY <2>1, <2>2 DEF TypeOK
<1>4. held \subseteq held' /\ held' \subseteq Resource \X Runs /\ modules' \subseteq held'
  <2>1. <<"out", k>> \in Resource \X Runs
    BY DEF Resource, Globals
  <2> QED BY <2>1 DEF MicWorkletLoads, PlayerWorkletLoads, WorkletFails, LoadDies, Loaded, TypeOK
<1>5. starting' \in {"idle", "audio", "broken"}
  BY DEF MicWorkletLoads, PlayerWorkletLoads, WorkletFails, LoadDies, OpenSocket, TypeOK
<1>6. \/ /\ socket' = socket /\ running' = running
         /\ page' = page \/ page' = [page EXCEPT !.out = k] \/ page' = [page EXCEPT !.player = page.out]
      \/ /\ socket' = [socket EXCEPT ![k] = "connecting"] /\ running' = TRUE
         /\ page' = [[page EXCEPT !.player = page.out] EXCEPT !.ws = k]
         /\ k \in Sessions /\ load[k] = "out"
  BY DEF MicWorkletLoads, PlayerWorkletLoads, WorkletFails, LoadDies, OpenSocket
<1>7. TransportTypeOK'
  <2>1. socket' \in [Sessions -> SocketState]
    BY <1>6 DEF TypeOK, TransportTypeOK, SocketState
  <2> QED BY <1>1, <2>1 DEF TypeOK, TransportTypeOK, engineVars
<1>8. page' \in [Globals -> {0} \cup Runs]
  <2>1. page \in [Globals -> {0} \cup Runs] /\ page.out \in {0} \cup Runs
    BY DEF TypeOK, Globals
  <2> QED BY <2>1, <1>6 DEF Globals
<1>9. running' \in BOOLEAN /\ (running' <=> page'.ws # 0) /\ (rtcActive' => running' /\ page'.pc = page'.ws)
  <2>1. page \in [Globals -> {0} \cup Runs]
    BY DEF TypeOK
  <2>2. CASE running' = running /\ page'.ws = page.ws /\ page'.pc = page.pc
    BY <2>2, <1>1 DEF TypeOK
  <2>3. CASE k \in Sessions /\ load[k] = "out" /\ running' = TRUE /\ page'.ws = k
    <3>1. ~rtcActive
      BY <2>3, <2>1 DEF Globe, Loads
    <3> QED BY <3>1, <2>3, <1>1, RunNumbers
  <2> QED BY <2>1, <2>2, <2>3, <1>6 DEF Globals
<1>10. linked' \subseteq {p \in Sessions : <<"pc", p>> \in held'}
  BY <1>1, <1>4 DEF TypeOK
<1>11. /\ transport' \in {"any", "ws", "webrtc"} /\ starts' \in 0..MaxSessions
       /\ rtcActive' \in BOOLEAN /\ watchdog' \in BOOLEAN
       /\ setup' \in [Sessions -> {"none", "offer", "gather", "answer", "done"}]
       /\ answered' \in [Sessions -> {0} \cup Sessions]
  BY <1>1 DEF TypeOK
<1> QED BY <1>2, <1>3, <1>4, <1>5, <1>7, <1>8, <1>9, <1>10, <1>11 DEF TypeOK

LEMMA SessionTypes ==
  ASSUME TypeOK, Globe, Dialling, NEW s \in Sessions, SessionMessage(s)
  PROVE  TypeOK'
<1>1. TransportTypeOK'
  BY EngineTypes DEF SessionMessage, TypeOK
<1>2. UNCHANGED <<transport, starting, starts, running, load, tap>>
  BY DEF SessionMessage, loading
<1>3. CASE UNCHANGED <<flags, page, open, setup>>
  BY <1>1, <1>2, <1>3 DEF TypeOK, flags, open
<1>4. CASE /\ socket[s] = "connecting" /\ rtcActive' = TRUE /\ watchdog' = TRUE
           /\ page' = [page EXCEPT !.pc = s] /\ Replace({}, {<<"pc", s>>})
           /\ setup' = [setup EXCEPT ![s] = "offer"]
  <2>1. /\ held' \subseteq Resource \X Runs /\ modules' \subseteq held'
        /\ answered' \in [Sessions -> {0} \cup Sessions]
        /\ linked' \subseteq {p \in Sessions : <<"pc", p>> \in held'}
    <3>1. {<<"pc", s>>} \in SUBSET (Resource \X Runs)
      BY RunNumbers DEF Resource, Globals
    <3> QED BY <3>1, <1>4, ReplaceTypes
  <2>2. page' \in [Globals -> {0} \cup Runs] /\ page'.ws = page.ws /\ page'.pc = s
    <3>1. page \in [Globals -> {0} \cup Runs]
      BY DEF TypeOK
    <3> QED BY <3>1, <1>4, RunNumbers DEF Globals
  <2>3. page.ws = s /\ running
    BY <1>4, RunNumbers DEF Dialling, TypeOK
  <2>4. /\ rtcActive' => running' /\ page'.pc = page'.ws
        /\ running' <=> page'.ws # 0
    BY <1>2, <2>2, <2>3, RunNumbers
  <2>5. /\ rtcActive' \in BOOLEAN /\ watchdog' \in BOOLEAN
        /\ setup' \in [Sessions -> {"none", "offer", "gather", "answer", "done"}]
    BY <1>4 DEF TypeOK
  <2>6. /\ transport' \in {"any", "ws", "webrtc"} /\ starting' \in {"idle", "audio", "broken"}
        /\ starts' \in 0..MaxSessions /\ running' \in BOOLEAN
        /\ load' \in [Runs -> {"idle", "in", "out", "dead"}] /\ tap' \in [Runs -> {0} \cup Runs]
    BY <1>2 DEF TypeOK
  <2> QED BY <1>1, <2>1, <2>2, <2>4, <2>5, <2>6 DEF TypeOK
<1> QED BY <1>3, <1>4 DEF SessionMessage

\* Peer connections and websockets carry the number of their session.
LEMMA PeerNumber ==
  ASSUME TypeOK, Globe
  PROVE  /\ page.ws \in {0} \cup Sessions /\ page.pc \in {0} \cup Sessions
         /\ running => page.ws \in Sessions /\ page.ws = starts
BY TransportAssumption DEF TypeOK, Globe, Sessions

LEMMA SetupTypes ==
  ASSUME TypeOK, Globe, Owned, NEW s \in Sessions,
         OfferMade(s) \/ Gathered(s) \/ AnswerComes(s) \/ AnswerFails(s)
  PROVE  TypeOK'
<1>1. UNCHANGED <<socket, session, gatewayWs, gwSock, call, transport, starting, starts, running>>
  BY DEF OfferMade, Gathered, AnswerComes, AnswerFails, SetupFrame
<1>2. setup' \in [Sessions -> {"none", "offer", "gather", "answer", "done"}]
  BY DEF OfferMade, Gathered, AnswerComes, AnswerFails, SetupFails, TypeOK
<1>3. offer' \in [Sessions -> {"none", "posted", "attached", "answered"}]
  BY DEF OfferMade, Gathered, AnswerComes, AnswerFails, TypeOK, TransportTypeOK
<1>4. sdp' \in [Sessions -> {0} \cup Sessions]
  <2>1. sdp' = sdp \/ sdp' = [sdp EXCEPT ![s] = page.pc]
    BY DEF OfferMade, Gathered, AnswerComes, AnswerFails, SetupFails
  <2> QED BY <2>1, PeerNumber DEF TypeOK, TransportTypeOK
<1>5. CASE FallBack
  BY <1>1, <1>2, <1>3, <1>4, <1>5, FallBackTypes
<1>6. CASE UNCHANGED <<wsAudio, flags, page, open, loading>>
  <2>1. TransportTypeOK'
    BY <1>1, <1>3, <1>4, <1>6 DEF TypeOK, TransportTypeOK
  <2> QED BY <1>1, <1>2, <1>6, <2>1 DEF TypeOK, flags, open, loading
<1>7. CASE AnswerComes(s)
  <2>1. UNCHANGED <<wsAudio, rtcActive, watchdog, page, held, modules, linked, load, tap>>
    BY <1>7 DEF AnswerComes, flags, loading
  <2>2. TransportTypeOK'
    BY <1>1, <1>3, <1>4, <2>1 DEF TypeOK, TransportTypeOK
  <2>3. answered' \in [Sessions -> {0} \cup Sessions]
    BY <1>7 DEF AnswerComes, TypeOK
  <2> QED BY <1>1, <1>2, <2>1, <2>2, <2>3 DEF TypeOK
<1> QED BY <1>5, <1>6, <1>7 DEF OfferMade, Gathered, AnswerFails, SetupFails

LEMMA PeerTypes ==
  ASSUME TypeOK, Globe, Owned,
         \/ Watchdog
         \/ \E p \in Sessions : Failed(p) \/ Connected(p)
  PROVE  TypeOK'
<1>1. CASE FallBack /\ PageFrame
  <2>1. /\ offer' \in [Sessions -> {"none", "posted", "attached", "answered"}]
        /\ sdp' \in [Sessions -> {0} \cup Sessions]
        /\ setup' \in [Sessions -> {"none", "offer", "gather", "answer", "done"}]
    BY <1>1 DEF PageFrame, TypeOK, TransportTypeOK
  <2>2. UNCHANGED <<socket, session, gatewayWs, gwSock, call, transport, starting, starts, running>>
    BY <1>1 DEF PageFrame
  <2> QED BY <1>1, <2>1, <2>2, FallBackTypes
<1>2. CASE watchdog' = FALSE /\ UNCHANGED <<wsAudio, rtcActive, page, open, loading>> /\ PageFrame
  BY <1>2 DEF TypeOK, TransportTypeOK, open, loading, PageFrame
<1>3. ASSUME NEW p \in Sessions, Connected(p)
      PROVE  TypeOK'
  <2>1. UNCHANGED <<socket, engineVars, transport, starting, starts, running, page, rtcActive,
                    load, tap, held, modules, setup, answered>> /\ watchdog' = FALSE
    BY <1>3 DEF Connected, loading
  <2>2. linked' \subseteq {q \in Sessions : <<"pc", q>> \in held'}
    BY <1>3 DEF Connected, Matched, Owned, TypeOK
  <2> QED BY <2>1, <2>2 DEF TypeOK, TransportTypeOK, engineVars
<1> QED BY <1>1, <1>2, <1>3 DEF Watchdog, Failed

\* Every step keeps the state well typed.
LEMMA NextTypes ==
  ASSUME PageInv, [Next]_vars
  PROVE  TypeOK'
<1> USE DEF PageInv, PageShape
<1>1. CASE Start
  BY <1>1, StartTypes
<1>2. CASE PressStop
  <2>1. socket \in [Sessions -> SocketState]
    BY DEF TypeOK, TransportTypeOK
  <2> QED BY <1>2, <2>1, StopTypes DEF PressStop
<1>3. CASE TurnKnob
  BY <1>3 DEF TurnKnob, TypeOK, TransportTypeOK, engineVars, flags, loading, open
<1>4. CASE Watchdog \/ \E p \in Sessions : Failed(p) \/ Connected(p)
  BY <1>4, PeerTypes
<1>5. CASE \E k \in Runs : MicWorkletLoads(k) \/ PlayerWorkletLoads(k) \/ WorkletFails(k)
  BY <1>5, WorkletTypes
<1>6. ASSUME NEW s \in Sessions, Engine(s)
      PROVE  TypeOK'
  <2>1. TransportTypeOK'
    BY <1>6, EngineTypes DEF Engine, TypeOK
  <2> QED BY <1>6, <2>1 DEF Engine, TypeOK, pageVars, flags, loading, open
<1>7. ASSUME NEW s \in Sessions, SocketCloses(s)
      PROVE  TypeOK'
  <2>1. [socket EXCEPT ![s] = "closed"] \in [Sessions -> SocketState]
    BY DEF TypeOK, TransportTypeOK, SocketState
  <2> QED BY <1>7, <2>1, StopTypes DEF SocketCloses
<1>8. CASE \E s \in Sessions : SessionMessage(s)
  BY <1>8, SessionTypes
<1>9. CASE \E s \in Sessions : OfferMade(s) \/ Gathered(s) \/ AnswerComes(s) \/ AnswerFails(s)
  BY <1>9, SetupTypes
<1>10. CASE UNCHANGED vars
  BY <1>10 DEF vars, pageVars, TypeOK, TransportTypeOK, engineVars, flags, loading, open
<1> QED BY <1>1, <1>2, <1>3, <1>4, <1>5, <1>6, <1>7, <1>8, <1>9, <1>10 DEF Next, User

-----------------------------------------------------------------------------
(* The shape of the page, kind of step by kind of step. *)

\* What makes a page irregular never passes.
LEMMA Lasting ==
  ASSUME \A k \in Runs : tap[k] # 0 => tap'[k] = tap[k],
         \A s \in Sessions : Begun(s) => Begun(s)',
         \A s \in Sessions : setup[s] # "none" => setup'[s] # "none",
         ~Stale', NoneCrossed'
  PROVE  ~Stale /\ NoneCrossed
<1>1. ~Stale
  BY DEF Stale
<1>2. ASSUME NEW s \in Sessions, Crossed(s)
      PROVE  Crossed(s)'
  BY <1>2 DEF Crossed, Begun
<1> QED BY <1>1, <1>2 DEF NoneCrossed

\* A step that leaves the globals and the resources alone.
LEMMA Kept ==
  ASSUME PageInv, UNCHANGED <<starting, starts, running, page, rtcActive, load, tap, held>>,
         \A s \in Sessions : socket'[s] = "connecting" => socket[s] = "connecting",
         \A s \in Sessions : setup[s] # "none" => setup'[s] # "none",
         \A p \in Sessions : answered'[p] # 0 => <<"pc", p>> \in held
  PROVE  PageShape'
<1> USE DEF PageInv, PageShape
<1>1. Globe' /\ Dialling' /\ Owned'
  BY DEF Globe, Dialling, Owned
<1>2. Loads'
  BY PeerNumber DEF Loads, Begun
<1>3. Regular'
  <2>1. ~Stale' /\ NoneCrossed' => ~Stale /\ NoneCrossed
    BY Lasting DEF Begun
  <2> QED BY <2>1 DEF Regular
<1> QED BY <1>1, <1>2, <1>3

LEMMA StopShape ==
  ASSUME PageInv, NEW sockets,
         \A s \in Sessions : sockets[s] = "connecting" => socket[s] = "connecting",
         sockets \in [Sessions -> SocketState], Stop(sockets),
         UNCHANGED <<engineVars, starting, starts, loading, setup>>
  PROVE  PageShape'
<1> USE DEF PageInv, PageShape
<1>1. CASE ~running
  <2>1. socket' = sockets /\ UNCHANGED <<running, page, held, rtcActive, load, tap, answered>>
    BY <1>1 DEF Stop, open, flags, loading
  <2>2. \A p \in Sessions : answered'[p] # 0 => <<"pc", p>> \in held
    BY <2>1 DEF Owned
  <2> QED BY <2>1, <2>2, Kept
<1>2. CASE running
  <2>1. /\ page' = Blank /\ ~running' /\ rtcActive' = FALSE
        /\ Replace(AllHeld, {}) /\ socket' = [sockets EXCEPT ![page.ws] = ClosedSocket(@)]
    BY <1>2 DEF Stop, FlagsDown
  <2>2. UNCHANGED <<starting, starts, load, tap, setup>>
    BY DEF loading
  <2>3. \A g \in Globals : page'[g] = 0
    BY <2>1 DEF Blank
  <2>4. \A g \in Resource, r \in Runs : <<g, r>> \in held' => <<g, r>> \in held /\ r # page[g]
    BY <2>1 DEF Replace, AllHeld
  <2>5. Globe'
    BY <2>1, <2>2, <2>3 DEF Globe, Globals
  <2>6. Dialling'
    <3>1. \A s \in Sessions : socket'[s] = "connecting" => sockets[s] = "connecting" /\ s # page.ws
      BY <2>1 DEF ClosedSocket
    <3> QED BY <3>1 DEF Dialling
  <2>7. Owned'
    <3>1. \A p \in Sessions : answered'[p] # 0 => <<"pc", p>> \in held'
      BY <2>1 DEF Replace, Owned
    <3>2. \A g \in {"mic", "rtc", "pc"}, r \in Runs : <<g, r>> \notin held'
      BY <2>4 DEF Owned, Resource, Globals
    <3> QED BY <3>1, <3>2, <2>3 DEF Owned, Globals
  <2>8. Loads'
    <3>1. \A s \in Sessions : socket'[s] = "connecting" => socket[s] = "connecting"
      BY <2>1 DEF ClosedSocket
    <3>2. page'.in = 0 /\ page'.pc = 0
      BY <2>3 DEF Globals
    <3> QED BY <3>1, <3>2, <2>2, RunNumbers DEF Loads, Begun
  <2>9. Regular'
    <3>1. ~Stale' /\ NoneCrossed' => ~Stale /\ NoneCrossed
      BY <2>2, Lasting DEF Begun
    <3>2. ASSUME ~Stale, NoneCrossed, NEW g \in {"in", "out"}, NEW r \in Runs
          PROVE  <<g, r>> \notin held'
      BY <3>2, <2>4 DEF Regular, Resource, Globals
    <3> QED BY <3>1, <3>2, <2>3 DEF Regular, Globals
  <2> QED BY <2>5, <2>6, <2>7, <2>8, <2>9
<1> QED BY <1>1, <1>2

LEMMA FallBackShape ==
  ASSUME PageInv, FallBack, UNCHANGED <<socket, starting, starts, running>>,
         \A s \in Sessions : setup[s] # "none" => setup'[s] # "none"
  PROVE  PageShape'
<1> USE DEF PageInv, PageShape
<1>1. CASE ~running \/ ~rtcActive
  <2>1. UNCHANGED <<page, rtcActive, load, tap, held, answered>>
    BY <1>1 DEF FallBack, open, flags, loading
  <2>2. \A p \in Sessions : answered'[p] # 0 => <<"pc", p>> \in held
    BY <2>1 DEF Owned
  <2> QED BY <2>1, <2>2, Kept
<1>2. CASE running /\ rtcActive
  <2> DEFINE k == Fallback(page.ws)
  <2>1. /\ page.ws \in Sessions /\ page.ws = starts /\ starting = "idle" /\ page.pc = page.ws
        /\ k \in Runs /\ k \notin Sessions
    BY <1>2, PeerNumber, RunNumbers DEF Globe
  <2>2. /\ rtcActive' = FALSE /\ tap' = tap /\ load' = [load EXCEPT ![k] = "in"]
        /\ Replace(PeerHeld, {<<"in", k>>})
        /\ page' = [[page EXCEPT !.pc = 0, !.rtc = 0] EXCEPT !.in = k]
    BY <1>2 DEF FallBack, BeginLoad
  <2>3. /\ page'.ws = page.ws /\ page'.pc = 0 /\ page'.rtc = 0 /\ page'.in = k
        /\ page'.mic = page.mic /\ page'.out = page.out
    BY <2>2 DEF TypeOK, Globals
  <2>4. \A g \in Resource, r \in Runs : <<g, r>> \in held' =>
          \/ g = "in" /\ r = k
          \/ <<g, r>> \in held /\ ~(g \in {"pc", "rtc"} /\ r = page[g])
    BY <2>2 DEF Replace, PeerHeld
  <2>5. load[k] = "idle" /\ tap[k] = 0
    BY <2>1 DEF Loads, Begun
  <2>6. Globe'
    BY <1>2, <2>1, <2>2, <2>3 DEF Globe
  <2>7. Dialling'
    BY <2>3 DEF Dialling
  <2>8. Owned'
    <3>1. \A p \in Sessions : answered'[p] # 0 => <<"pc", p>> \in held'
      BY <2>2 DEF Replace, Owned
    <3>2. ASSUME NEW g \in {"mic", "rtc", "pc"}, NEW r \in Runs, <<g, r>> \in held'
          PROVE  r = page'[g]
      <4>1. <<g, r>> \in held /\ ~(g \in {"pc", "rtc"} /\ r = page[g])
        BY <3>2, <2>4 DEF Resource, Globals
      <4> QED BY <4>1, <2>3 DEF Owned
    <3> QED BY <3>1, <3>2, <2>3 DEF Owned
  <2>9. Loads'
    <3>1. /\ load'[k] = "in" /\ tap'[k] = 0
          /\ \A j \in Runs : j # k => load'[j] = load[j] /\ tap'[j] = tap[j]
      BY <2>1, <2>2, <2>5 DEF TypeOK
    <3>2. \A j \in Runs : (load'[j] = "in" => tap'[j] = 0) /\ (load'[j] = "out" => tap'[j] # 0)
      BY <3>1 DEF Loads
    <3>3. \A s \in Sessions : load'[s] = load[s] /\ tap'[s] = tap[s]
      BY <3>1, <2>1, RunNumbers
    <3>4. page'.in # 0 => Begun(page.in)'
      BY <3>1, <2>3 DEF Begun
    <3>5. ASSUME NEW s \in Sessions,
                 \/ s > starts' \/ (starting' = "audio" /\ s = starts')
                 \/ socket'[s] = "connecting" \/ s = page'.pc
          PROVE  ~Begun(Fallback(s))'
      <4>1. s # page.ws
        BY <3>5, <2>1, <2>3, RunNumbers DEF Dialling, Sessions
      <4>2. Fallback(s) # k /\ Fallback(s) \in Runs
        BY <4>1, <2>1, RunNumbers
      <4>3. ~Begun(Fallback(s))
        BY <3>5, <2>3, RunNumbers DEF Loads
      <4> QED BY <4>2, <4>3, <3>1 DEF Begun
    <3> QED BY <3>2, <3>3, <3>4, <3>5, <2>3 DEF Loads, Begun
  <2>10. Regular'
    <3>1. ~Stale' /\ NoneCrossed' => ~Stale /\ NoneCrossed
      <4>1. \A s \in Sessions : load'[s] = load[s] /\ tap'[s] = tap[s]
        BY <2>1, <2>2, RunNumbers DEF TypeOK
      <4> QED BY <4>1, <2>2, Lasting DEF Begun
    <3>2. ASSUME ~Stale, NoneCrossed
          PROVE  page.in = 0 /\ page.out = 0
      <4>1. ~Begun(k)
        BY <2>5 DEF Begun
      <4>2. setup[page.ws] # "none"
        BY <2>1, RunNumbers DEF Loads
      <4>3. ~Begun(page.ws)
        BY <4>2, <3>2, <2>1 DEF NoneCrossed, Crossed, Begun
      <4>4. page.in = 0
        BY <4>1, <4>3, <2>1 DEF Globe, Loads
      <4> QED BY <3>2, <4>4 DEF Regular
    <3>3. ASSUME ~Stale, NoneCrossed, NEW g \in {"in", "out"}, NEW r \in Runs, <<g, r>> \in held'
          PROVE  g = "in" /\ r = k
      BY <3>2, <3>3, <2>4, RunNumbers DEF Regular, Resource, Globals
    <3> QED BY <3>1, <3>2, <3>3, <2>3 DEF Regular
  <2> QED BY <2>6, <2>7, <2>8, <2>9, <2>10
<1> QED BY <1>1, <1>2

LEMMA StartShape ==
  ASSUME PageInv, Start
  PROVE  PageShape'
<1> USE DEF PageInv, PageShape
<1> DEFINE s == starts + 1
<1>0. s \in Sessions /\ s \in Runs /\ s # 0 /\ Fallback(s) \in Runs /\ starts \in Nat
      /\ \A t \in Sessions : t > s => t > starts
  <2>1. starts \in Nat /\ starts < MaxSessions
    BY TransportAssumption DEF Start, TypeOK
  <2>2. s \in Sessions /\ s # 0 /\ \A t \in Sessions : t > s => t > starts
    BY <2>1, TransportAssumption DEF Sessions
  <2> QED BY <2>1, <2>2, RunNumbers
<1>1. /\ starts' = s /\ UNCHANGED <<engineVars, rtcActive, setup>>
      /\ ~running /\ ~rtcActive /\ starting = "idle" /\ page = Blank
      /\ load[s] = "idle" /\ tap[s] = 0 /\ ~Begun(Fallback(s))
  BY <1>0 DEF Start, flags, Globe, Loads, Begun
<1>2. \A g \in Globals : page[g] = 0
  BY <1>1 DEF Blank
<1>3. \A g \in {"mic", "rtc", "pc"}, r \in Runs : <<g, r>> \notin held
  BY <1>2, RunNumbers DEF Owned, Globals
<1>4. \A t \in Sessions : socket[t] # "connecting"
  BY <1>2, RunNumbers DEF Dialling, Globals
<1>5. ~Stale /\ NoneCrossed => \A g \in {"in", "out"}, r \in Runs : <<g, r>> \notin held
  BY <1>2, RunNumbers DEF Regular, Globals
<1>6. CASE /\ starting' = "audio"
           /\ Replace({}, {<<"mic", s>>, <<"in", s>>})
           /\ BeginLoad(s, [page EXCEPT !.mic = s])
           /\ UNCHANGED <<socket, running>>
  <2>1. page'.in = s /\ page'.mic = s
        /\ \A g \in Globals : g \notin {"in", "mic"} => page'[g] = 0
    BY <1>1, <1>6 DEF BeginLoad, Blank, Globals
  <2>2. /\ tap' = tap /\ load'[s] = "in"
        /\ \A j \in Runs : j # s => load'[j] = load[j]
    BY <1>6, <1>0 DEF BeginLoad, TypeOK
  <2>3. /\ held' = held \cup {<<"mic", s>>, <<"in", s>>}
        /\ \A p \in Sessions : answered'[p] = answered[p]
    BY <1>6 DEF Replace
  <2>4. Globe'
    BY <1>1, <1>6, <2>1 DEF Globe, Globals
  <2>5. Dialling'
    BY <1>4, <1>6 DEF Dialling
  <2>6. Owned'
    BY <1>2, <1>3, <2>1, <2>3, RunNumbers DEF Owned, Globals
  <2>7. Loads'
    <3>1. \A j \in Runs : (load'[j] = "in" => tap'[j] = 0) /\ (load'[j] = "out" => tap'[j] # 0)
      BY <1>1, <2>2 DEF Loads
    <3>2. \A t \in Sessions : load'[t] \in {"in", "out"} => t = s
      BY <1>1, <2>2, RunNumbers DEF Loads
    <3>3. Begun(page.in)' /\ page'.pc = 0
      BY <2>1, <2>2 DEF Begun, Globals
    <3>4. \A t \in Sessions : t > s => ~Begun(t)'
      <4>1. \A t \in Sessions : t > s => t # s /\ t > starts
        BY <1>0 DEF Sessions
      <4> QED BY <4>1, <2>2, RunNumbers DEF Loads, Begun
    <3>5. \A t \in Sessions : t > s \/ t = s => ~Begun(Fallback(t))'
      <4>1. \A t \in Sessions : t > s \/ t = s => t > starts
        BY <1>0 DEF Sessions
      <4>2. \A t \in Sessions : t > starts => ~Begun(Fallback(t))
        BY DEF Loads
      <4>3. \A t \in Sessions : Fallback(t) \in Runs /\ Fallback(t) # s
        BY <1>0, RunNumbers
      <4> QED BY <4>1, <4>2, <4>3, <2>2 DEF Begun
    <3>6. \A t \in Sessions : socket'[t] # "connecting" /\ t # page'.pc
      BY <1>4, <1>6, <3>3, RunNumbers
    <3> QED BY <1>1, <1>6, <3>1, <3>2, <3>3, <3>4, <3>5, <3>6 DEF Loads
  <2>8. Regular'
    <3>1. ~Stale' /\ NoneCrossed' => ~Stale /\ NoneCrossed
      BY <1>1, <2>2, RunNumbers, Lasting DEF Begun
    <3>2. page'.out = 0
      BY <2>1 DEF Globals
    <3> QED BY <1>5, <2>1, <2>3, <3>1, <3>2 DEF Regular
  <2> QED BY <2>4, <2>5, <2>6, <2>7, <2>8
<1>7. CASE /\ Replace({}, {<<"mic", s>>, <<"rtc", s>>})
           /\ OpenSocket(s, [[page EXCEPT !.mic = s] EXCEPT !.rtc = s])
           /\ UNCHANGED loading
  <2>1. page'.ws = s /\ page'.mic = s /\ page'.rtc = s
        /\ \A g \in Globals : g \notin {"ws", "rtc", "mic"} => page'[g] = 0
    BY <1>1, <1>7 DEF OpenSocket, Blank, Globals
  <2>2. /\ tap' = tap /\ load' = load /\ running' = TRUE /\ starting' = "idle"
        /\ \A t \in Sessions : t # s => socket'[t] = socket[t]
    BY <1>7, <1>0 DEF OpenSocket, loading, TypeOK, TransportTypeOK
  <2>3. /\ held' = held \cup {<<"mic", s>>, <<"rtc", s>>}
        /\ \A p \in Sessions : answered'[p] = answered[p]
    BY <1>7 DEF Replace
  <2>4. Globe'
    BY <1>1, <2>1, <2>2 DEF Globe, Globals
  <2>5. Dialling'
    BY <1>4, <2>1, <2>2 DEF Dialling, Globals
  <2>6. Owned'
    BY <1>2, <1>3, <2>1, <2>3, RunNumbers DEF Owned, Globals
  <2>7. Loads'
    <3>1. \A j \in Runs : (load'[j] = "in" => tap'[j] = 0) /\ (load'[j] = "out" => tap'[j] # 0)
      BY <2>2 DEF Loads
    <3>2. \A t \in Sessions : load'[t] \notin {"in", "out"}
      BY <1>1, <2>2 DEF Loads
    <3>3. page'.in = 0 /\ page'.pc = 0
      BY <2>1 DEF Globals
    <3>4. \A t \in Sessions : t > s => ~Begun(t)'
      BY <1>0, <2>2 DEF Loads, Begun
    <3>5. \A t \in Sessions : t > s \/ t = s => ~Begun(Fallback(t))'
      BY <1>0, <1>1, <2>2 DEF Loads, Begun
    <3>6. \A t \in Sessions : socket'[t] = "connecting" => t = s
      BY <1>4, <2>2
    <3> QED BY <1>1, <2>2, <3>1, <3>2, <3>3, <3>4, <3>5, <3>6, RunNumbers DEF Loads
  <2>8. Regular'
    <3>1. ~Stale' /\ NoneCrossed' => ~Stale /\ NoneCrossed
      BY <1>1, <2>2, Lasting DEF Begun
    <3>2. page'.out = 0
      BY <2>1 DEF Globals
    <3> QED BY <1>5, <2>1, <2>3, <3>1, <3>2 DEF Regular
  <2> QED BY <2>4, <2>5, <2>6, <2>7, <2>8
<1> QED BY <1>6, <1>7 DEF Start

\* A continuation of initWsAudio that throws leaves its run begun.
LEMMA DiesShape ==
  ASSUME PageInv, NEW k \in Runs, load[k] \in {"in", "out"}, LoadDies(k),
         UNCHANGED <<starts, flags, setup, answered>>
  PROVE  PageShape'
<1> USE DEF PageInv, PageShape
<1>1. /\ UNCHANGED <<socket, running, page, held, tap, rtcActive>>
      /\ load'[k] = "dead" /\ \A j \in Runs : j # k => load'[j] = load[j]
      /\ starting' = IF k \in Sessions THEN "broken" ELSE starting
  BY DEF LoadDies, TypeOK, flags
<1>2. \A j \in Runs : (Begun(j) <=> Begun(j)') /\ load'[j] \in {load[j], "dead"}
  BY <1>1 DEF Begun
<1>3. k \in Sessions => starting = "audio" /\ k = starts
  BY DEF Loads
<1>4. Globe'
  BY <1>1, <1>3 DEF Globe
<1>5. Dialling' /\ Owned'
  BY <1>1 DEF Dialling, Owned
<1>6. Loads'
  <2>1. page.in \in {0} \cup Runs
    BY DEF TypeOK, Globals
  <2>2. \A s \in Sessions : load'[s] \in {"in", "out"} => starting' = "audio" /\ s = starts
    BY <1>1, <1>2, <1>3, RunNumbers DEF Loads
  <2>3. starting' = "audio" => starting = "audio"
    BY <1>1
  <2>4. \A j \in Runs : (load'[j] = "in" => tap'[j] = 0) /\ (load'[j] = "out" => tap'[j] # 0)
    BY <1>1, <1>2 DEF Loads
  <2>5. page'.in # 0 => Begun(page.in)'
    BY <1>1, <1>2, <2>1 DEF Loads, Begun
  <2>6. \A s \in Sessions : s > starts => ~Begun(s)'
    BY <1>2, RunNumbers DEF Loads
  <2>7. ASSUME NEW s \in Sessions,
               \/ s > starts \/ (starting' = "audio" /\ s = starts)
               \/ socket[s] = "connecting" \/ s = page.pc
        PROVE  ~Begun(Fallback(s))'
    <3>1. ~Begun(Fallback(s))
      BY <2>3, <2>7 DEF Loads
    <3> QED BY <3>1, <1>2, RunNumbers
  <2> QED BY <1>1, <2>2, <2>4, <2>5, <2>6, <2>7 DEF Loads
<1>7. Regular'
  <2>1. ~Stale' /\ NoneCrossed' => ~Stale /\ NoneCrossed
    BY <1>1, <1>2, RunNumbers, Lasting
  <2> QED BY <1>1, <2>1 DEF Regular
<1> QED BY <1>4, <1>5, <1>6, <1>7

\* One that goes on attaches to the context the page has by now: to its own run's
\* context, or the page is irregular from here on.
LEMMA MicShape ==
  ASSUME PageInv, NEW k \in Runs, MicWorkletLoads(k)
  PROVE  PageShape'
<1> USE DEF PageInv, PageShape
<1>1. CASE LoadDies(k)
  BY <1>1, DiesShape DEF MicWorkletLoads
<1>2. CASE NodeMade("in", k) /\ ~LoadDies(k)
  <2>1. /\ load[k] = "in" /\ tap' = [tap EXCEPT ![k] = page.in]
        /\ page' = [page EXCEPT !.out = k] /\ held' = held \cup {<<"out", k>>}
        /\ load' = [load EXCEPT ![k] = "out"]
        /\ UNCHANGED <<socket, running, starting, starts, rtcActive, setup, answered>>
    BY <1>2 DEF MicWorkletLoads, flags
  <2>2. page.in \in Runs /\ page.in # 0
    <3>1. <<"in", page.in>> \in held
      BY <1>2 DEF NodeMade, Loaded, TypeOK
    <3> QED BY <3>1, RunNumbers DEF TypeOK
  <2>3. /\ page'.out = k /\ \A g \in Globals : g # "out" => page'[g] = page[g]
    BY <2>1 DEF TypeOK, Globals
  <2>4. /\ load'[k] = "out" /\ tap'[k] = page.in /\ tap[k] = 0
        /\ \A j \in Runs : j # k => load'[j] = load[j] /\ tap'[j] = tap[j]
    BY <2>1 DEF TypeOK, Loads
  <2>5. \A j \in Runs : Begun(j) <=> Begun(j)'
    BY <2>1, <2>2, <2>4 DEF Begun
  <2>6. Globe'
    <3>1. running \/ starting # "idle"
      BY <2>2, RunNumbers DEF Globe, Blank, Globals
    <3> QED BY <3>1, <2>1, <2>3 DEF Globe, Globals
  <2>7. Dialling' /\ Owned'
    BY <2>1, <2>3 DEF Dialling, Owned, Globals
  <2>8. Loads'
    <3>1. \A j \in Runs : (load'[j] = "in" => tap'[j] = 0) /\ (load'[j] = "out" => tap'[j] # 0)
      BY <2>2, <2>4 DEF Loads
    <3>2. \A s \in Sessions : load'[s] \in {"in", "out"} => starting = "audio" /\ s = starts
      BY <2>1, <2>4, RunNumbers DEF Loads
    <3>3. page'.in = page.in /\ page'.pc = page.pc
      BY <2>3 DEF Globals
    <3>4. Begun(page.in)'
      BY <2>2, <2>5, <3>3 DEF Loads, Begun
    <3>5. \A s \in Sessions : s > starts => ~Begun(s)'
      BY <2>5, RunNumbers DEF Loads
    <3>6. ASSUME NEW s \in Sessions,
                 \/ s > starts \/ (starting = "audio" /\ s = starts)
                 \/ socket[s] = "connecting" \/ s = page.pc
          PROVE  ~Begun(Fallback(s))'
      <4>1. ~Begun(Fallback(s))
        BY <3>6 DEF Loads
      <4> QED BY <4>1, <2>5, RunNumbers
    <3>7. page.pc # 0 => setup[page.pc] # "none"
      BY DEF Loads
    <3> QED BY <2>1, <3>1, <3>2, <3>3, <3>4, <3>5, <3>6, <3>7 DEF Loads
  <2>9. Regular'
    <3>1. ~Stale' /\ NoneCrossed' => ~Stale /\ NoneCrossed
      BY <2>1, <2>4, <2>5, RunNumbers, Lasting
    <3>2. ~Stale' => page.in = k
      BY <2>2, <2>4 DEF Stale
    <3>3. page'.in = page.in
      BY <2>3 DEF Globals
    <3>4. ASSUME ~Stale', NoneCrossed', NEW g \in {"in", "out"}, NEW r \in Runs, <<g, r>> \in held'
          PROVE  r = page'[g]
      BY <3>1, <3>2, <3>3, <3>4, <2>1, <2>3, RunNumbers DEF Regular
    <3> QED BY <3>2, <3>3, <3>4, <2>3 DEF Regular
  <2> QED BY <2>6, <2>7, <2>8, <2>9
<1> QED BY <1>1, <1>2 DEF MicWorkletLoads

LEMMA PlayerShape ==
  ASSUME PageInv, NEW k \in Runs, PlayerWorkletLoads(k)
  PROVE  PageShape'
<1> USE DEF PageInv, PageShape
<1>1. CASE LoadDies(k)
  BY <1>1, DiesShape DEF PlayerWorkletLoads
<1>2. CASE NodeMade("out", k) /\ ~LoadDies(k)
  <2>1. /\ load[k] = "out" /\ load' = [load EXCEPT ![k] = "idle"] /\ tap' = tap /\ held' = held
        /\ UNCHANGED <<starts, rtcActive, setup, answered>>
        /\ IF k \in Sessions
             THEN OpenSocket(k, [page EXCEPT !.player = page.out])
             ELSE page' = [page EXCEPT !.player = page.out] /\ UNCHANGED <<socket, running, starting>>
    BY <1>2 DEF PlayerWorkletLoads, flags
  <2>2. page.out # 0 /\ page \in [Globals -> {0} \cup Runs]
    <3>1. <<"out", page.out>> \in held
      BY <1>2 DEF NodeMade, Loaded, TypeOK
    <3> QED BY <3>1, RunNumbers DEF TypeOK
  <2>3. /\ load'[k] = "idle" /\ tap[k] # 0
        /\ \A j \in Runs : j # k => load'[j] = load[j]
    BY <2>1 DEF TypeOK, Loads
  <2>4. \A j \in Runs : Begun(j) <=> Begun(j)'
    BY <2>1, <2>3 DEF Begun
  <2>5. \A g \in Globals : g \notin {"ws", "player"} => page'[g] = page[g]
    BY <2>1, <2>2 DEF OpenSocket, Globals
  <2>6. running \/ starting # "idle"
    BY <2>2 DEF Globe, Blank, Globals
  <2>7. Owned'
    BY <2>1, <2>5 DEF Owned, Globals
  <2>8. Regular'
    <3>1. ~Stale' /\ NoneCrossed' => ~Stale /\ NoneCrossed
      BY <2>1, <2>4, RunNumbers, Lasting
    <3> QED BY <3>1, <2>1, <2>5 DEF Regular, Globals
  <2>9. page'.in = page.in /\ page'.pc = page.pc /\ page'.rtc = page.rtc
    BY <2>5 DEF Globals
  <2>10. \A j \in Runs : (load'[j] = "in" => tap'[j] = 0) /\ (load'[j] = "out" => tap'[j] # 0)
    BY <2>1, <2>3 DEF Loads
  <2>11. page'.in # 0 => Begun(page.in)'
    BY <2>2, <2>4, <2>9 DEF Loads, Begun, Globals
  <2>12. \A s \in Sessions : s > starts => ~Begun(s)'
    BY <2>4, RunNumbers DEF Loads
  <2>13. CASE k \notin Sessions
    <3>1. UNCHANGED <<socket, running, starting>> /\ page'.ws = page.ws
      BY <2>1, <2>2, <2>13 DEF Globals
    <3>2. Globe'
      BY <2>1, <2>6, <2>9, <3>1 DEF Globe
    <3>3. Dialling'
      BY <2>9, <3>1 DEF Dialling
    <3>4. Loads'
      <4>1. \A s \in Sessions : load'[s] \in {"in", "out"} => starting = "audio" /\ s = starts
        BY <2>3, <2>13, RunNumbers DEF Loads
      <4>2. ASSUME NEW s \in Sessions,
                   \/ s > starts \/ (starting = "audio" /\ s = starts)
                   \/ socket[s] = "connecting" \/ s = page.pc
            PROVE  ~Begun(Fallback(s))'
        <5>1. ~Begun(Fallback(s))
          BY <4>2 DEF Loads
        <5> QED BY <5>1, <2>4, RunNumbers
      <4>3. page.pc # 0 => setup[page.pc] # "none"
        BY DEF Loads
      <4> QED BY <2>1, <2>9, <2>10, <2>11, <2>12, <3>1, <4>1, <4>2, <4>3 DEF Loads
    <3> QED BY <2>7, <2>8, <3>2, <3>3, <3>4
  <2>14. CASE k \in Sessions
    <3>1. starting = "audio" /\ k = starts /\ ~running /\ page.ws = 0 /\ page.rtc = 0 /\ page.pc = 0
      BY <2>1, <2>14 DEF Loads, Globe
    <3>2. page'.ws = k /\ running' = TRUE /\ starting' = "idle"
      BY <2>1, <2>2, <2>14 DEF OpenSocket, Globals
    <3>3. \A s \in Sessions : socket'[s] = "connecting" => s = k
      <4>1. \A s \in Sessions : s # k => socket'[s] = socket[s]
        BY <2>1, <2>14 DEF OpenSocket, TypeOK, TransportTypeOK
      <4>2. \A s \in Sessions : socket[s] # "connecting"
        BY <3>1, RunNumbers DEF Dialling
      <4> QED BY <4>1, <4>2
    <3>4. Globe'
      BY <2>1, <2>9, <3>1, <3>2 DEF Globe
    <3>5. Dialling'
      BY <2>9, <3>1, <3>2, <3>3 DEF Dialling
    <3>6. Loads'
      <4>1. \A s \in Sessions : load'[s] \notin {"in", "out"}
        BY <2>3, <3>1, RunNumbers DEF Loads
      <4>2. ASSUME NEW s \in Sessions, s > starts \/ s = starts
            PROVE  ~Begun(Fallback(s))'
        <5>1. ~Begun(Fallback(s))
          BY <3>1, <4>2 DEF Loads
        <5> QED BY <5>1, <2>4, RunNumbers
      <4>3. ASSUME NEW s \in Sessions,
                   \/ s > starts \/ (starting' = "audio" /\ s = starts)
                   \/ socket'[s] = "connecting" \/ s = page'.pc
            PROVE  ~Begun(Fallback(s))'
        BY <4>2, <4>3, <2>9, <3>1, <3>2, <3>3, RunNumbers
      <4>4. page'.pc = 0
        BY <2>9, <3>1
      <4> QED BY <2>1, <2>10, <2>11, <2>12, <4>1, <4>3, <4>4 DEF Loads
    <3> QED BY <2>7, <2>8, <3>4, <3>5, <3>6
  <2> QED BY <2>13, <2>14
<1> QED BY <1>1, <1>2 DEF PlayerWorkletLoads

\* The session message starts setupRtc only for the session that is on.
LEMMA SessionShape ==
  ASSUME PageInv, NEW s \in Sessions, SessionMessage(s)
  PROVE  PageShape'
<1> USE DEF PageInv, PageShape
<1>1. /\ UNCHANGED <<starting, starts, running, load, tap>>
      /\ socket' = [socket EXCEPT ![s] = IF @ = "connecting" THEN "open" ELSE @]
  BY DEF SessionMessage, Accepts, loading
<1>2. /\ \A t \in Sessions : socket'[t] = "connecting" => socket[t] = "connecting"
      /\ socket'[s] # "connecting"
  BY <1>1 DEF TypeOK, TransportTypeOK
<1>3. CASE UNCHANGED <<flags, page, open, setup>>
  <2>1. UNCHANGED <<rtcActive, page, held, answered, setup>>
    BY <1>3 DEF flags, open
  <2>2. \A p \in Sessions : answered'[p] # 0 => <<"pc", p>> \in held
    BY <2>1 DEF Owned
  <2> QED BY <1>1, <1>2, <2>1, <2>2, Kept
<1>4. CASE /\ socket[s] = "connecting" /\ rtcActive' = TRUE
           /\ page' = [page EXCEPT !.pc = s] /\ Replace({}, {<<"pc", s>>})
           /\ setup' = [setup EXCEPT ![s] = "offer"]
  <2>1. page.ws = s /\ page.pc = 0 /\ running /\ s = starts /\ starting = "idle" /\ ~Begun(Fallback(s))
    BY <1>4, RunNumbers DEF Dialling, Globe, Loads
  <2>2. /\ page'.pc = s /\ \A g \in Globals : g # "pc" => page'[g] = page[g]
    BY <1>4 DEF TypeOK, Globals
  <2>3. /\ held' = held \cup {<<"pc", s>>} /\ \A p \in Sessions : answered'[p] = answered[p]
    BY <1>4 DEF Replace
  <2>4. /\ setup'[s] = "offer" /\ \A t \in Sessions : setup[t] # "none" => setup'[t] # "none"
    BY <1>4 DEF TypeOK
  <2>5. Globe'
    BY <1>1, <1>4, <2>1, <2>2, RunNumbers DEF Globe, Globals
  <2>6. Dialling'
    BY <1>2, <2>1, <2>2 DEF Dialling, Globals
  <2>7. Owned'
    <3>1. \A r \in Runs : <<"pc", r>> \notin held
      BY <2>1, RunNumbers DEF Owned
    <3>2. ASSUME NEW g \in {"mic", "rtc", "pc"}, NEW r \in Runs, <<g, r>> \in held'
          PROVE  r = page'[g]
      BY <3>1, <3>2, <2>2, <2>3 DEF Owned, Globals
    <3>3. \A p \in Sessions : answered'[p] # 0 => <<"pc", p>> \in held'
      BY <2>3 DEF Owned
    <3> QED BY <3>2, <3>3, <2>2, <2>3 DEF Owned
  <2>8. Loads'
    <3>1. page'.in = page.in
      BY <2>2 DEF Globals
    <3>2. \A j \in Runs : Begun(j)' <=> Begun(j)
      BY <1>1 DEF Begun
    <3>3. page'.in # 0 => Begun(page.in)'
      BY <3>1, <1>1 DEF Loads, Begun
    <3>4. ASSUME NEW t \in Sessions,
                 \/ t > starts \/ (starting' = "audio" /\ t = starts)
                 \/ socket'[t] = "connecting" \/ t = page'.pc
          PROVE  ~Begun(Fallback(t))'
      <4>1. ~Begun(Fallback(t))
        BY <3>4, <1>1, <1>2, <2>1, <2>2 DEF Loads
      <4> QED BY <4>1, <3>2, RunNumbers
    <3>5. \A t \in Sessions : t > starts => ~Begun(t)'
      BY <3>2, RunNumbers DEF Loads
    <3> QED BY <1>1, <2>2, <2>4, <3>3, <3>4, <3>5 DEF Loads
  <2>9. Regular'
    <3>1. ~Stale' /\ NoneCrossed' => ~Stale /\ NoneCrossed
      BY <1>1, <2>4, Lasting DEF Begun
    <3> QED BY <3>1, <2>2, <2>3 DEF Regular, Globals
  <2> QED BY <2>5, <2>6, <2>7, <2>8, <2>9
<1> QED BY <1>3, <1>4 DEF SessionMessage

LEMMA SetupShape ==
  ASSUME PageInv, NEW s \in Sessions,
         OfferMade(s) \/ Gathered(s) \/ AnswerComes(s) \/ AnswerFails(s)
  PROVE  PageShape'
<1> USE DEF PageInv, PageShape
<1>1. UNCHANGED <<socket, starting, starts, running>>
  BY DEF OfferMade, Gathered, AnswerComes, AnswerFails, SetupFrame
<1>2. \A t \in Sessions : setup[t] # "none" => setup'[t] # "none"
  BY DEF OfferMade, Gathered, AnswerComes, AnswerFails, SetupFails, TypeOK
<1>3. CASE FallBack
  BY <1>1, <1>2, <1>3, FallBackShape
<1>4. CASE UNCHANGED <<flags, page, open, loading>> \/ AnswerComes(s)
  <2>1. UNCHANGED <<page, rtcActive, load, tap, held>>
    BY <1>4 DEF AnswerComes, flags, open, loading
  <2>2. \A p \in Sessions : answered'[p] = answered[p] \/ p = page.pc
    BY <1>4 DEF AnswerComes, open, TypeOK
  <2>3. \A p \in Sessions : answered'[p] # 0 => <<"pc", p>> \in held
    BY <2>2, RunNumbers DEF Owned
  <2> QED BY <1>1, <1>2, <2>1, <2>3, Kept
<1> QED BY <1>3, <1>4 DEF OfferMade, Gathered, AnswerFails, SetupFails

LEMMA PeerShape ==
  ASSUME PageInv, Watchdog \/ \E p \in Sessions : Failed(p) \/ Connected(p)
  PROVE  PageShape'
<1> USE DEF PageInv, PageShape
<1>1. CASE FallBack /\ PageFrame
  BY <1>1, FallBackShape DEF PageFrame
<1>2. CASE UNCHANGED <<socket, starting, starts, running, page, rtcActive, loading, held, setup, answered>>
  <2>1. \A p \in Sessions : answered'[p] # 0 => <<"pc", p>> \in held
    BY <1>2 DEF Owned
  <2> QED BY <1>2, <2>1, Kept DEF loading
<1> QED BY <1>1, <1>2 DEF Watchdog, Failed, Connected, PageFrame, open

LEMMA NextShape ==
  ASSUME PageInv, [Next]_vars
  PROVE  PageShape'
<1> USE DEF PageInv, PageShape
<1>0. /\ \A p \in Sessions : answered[p] # 0 => <<"pc", p>> \in held
      /\ socket \in [Sessions -> SocketState]
  BY DEF Owned, TypeOK, TransportTypeOK
<1>1. CASE Start
  BY <1>1, StartShape
<1>2. CASE PressStop
  BY <1>0, <1>2, StopShape DEF PressStop
<1>3. CASE TurnKnob \/ UNCHANGED vars
  <2>1. UNCHANGED <<socket, starting, starts, running, page, rtcActive, load, tap, held, setup, answered>>
    BY <1>3 DEF TurnKnob, vars, pageVars, flags, loading, open
  <2> QED BY <1>0, <2>1, Kept
<1>4. CASE Watchdog \/ \E p \in Sessions : Failed(p) \/ Connected(p)
  BY <1>4, PeerShape
<1>5. CASE \E k \in Runs : MicWorkletLoads(k) \/ PlayerWorkletLoads(k) \/ WorkletFails(k)
  <2>1. ASSUME NEW k \in Runs, WorkletFails(k)
        PROVE  PageShape'
    BY <2>1, DiesShape DEF WorkletFails
  <2> QED BY <1>5, <2>1, MicShape, PlayerShape
<1>6. ASSUME NEW s \in Sessions, Engine(s)
      PROVE  PageShape'
  <2>1. UNCHANGED <<starting, starts, running, page, rtcActive, load, tap, held, setup, answered>>
    BY <1>6 DEF Engine, pageVars, flags, loading, open
  <2>2. socket' = socket
    BY <1>6 DEF Engine, TransportStep, UseWsAudio, SessionEnds, Dials, GatewayAnswers,
                GatewayHangsUp, GatewaySocketCloses
  <2> QED BY <1>0, <2>1, <2>2, Kept
<1>7. ASSUME NEW s \in Sessions, SocketCloses(s)
      PROVE  PageShape'
  <2> DEFINE sockets == [socket EXCEPT ![s] = "closed"]
  <2>1. /\ sockets \in [Sessions -> SocketState]
        /\ \A t \in Sessions : sockets[t] = "connecting" => socket[t] = "connecting"
    BY <1>0 DEF SocketState
  <2>2. Stop(sockets) /\ UNCHANGED <<engineVars, starting, starts, loading, setup>>
    BY <1>7 DEF SocketCloses
  <2> HIDE DEF sockets
  <2> QED BY <2>1, <2>2, StopShape
<1>8. CASE \E s \in Sessions : SessionMessage(s)
  BY <1>8, SessionShape
<1>9. CASE \E s \in Sessions : OfferMade(s) \/ Gathered(s) \/ AnswerComes(s) \/ AnswerFails(s)
  BY <1>9, SetupShape
<1> QED BY <1>1, <1>2, <1>3, <1>4, <1>5, <1>6, <1>7, <1>8, <1>9 DEF Next, User

LEMMA InitPage == Init => PageInv
<1> SUFFICES ASSUME Init PROVE PageInv
  OBVIOUS
<1>1. \A g \in Globals : page[g] = 0
  BY DEF Init, Blank
<1>2. /\ starts = 0 /\ starting = "idle" /\ ~running /\ ~rtcActive /\ held = {} /\ page = Blank
      /\ \A k \in Runs : load[k] = "idle" /\ tap[k] = 0
      /\ \A s \in Sessions : socket[s] = "none" /\ answered[s] = 0
  BY DEF Init, TransportInit
<1>3. TransportTypeOK
  BY DEF Init, TransportInit, TransportTypeOK, SocketState
<1>4. TypeOK
  <2>1. page \in [Globals -> {0} \cup Runs] /\ page.ws = 0
    BY <1>1 DEF Init, Blank, Globals
  <2>2. starts \in 0..MaxSessions
    BY <1>2, TransportAssumption
  <2> QED BY <1>2, <1>3, <2>1, <2>2 DEF Init, TypeOK
<1>5. Globe /\ Dialling /\ Owned
  BY <1>1, <1>2 DEF Globe, Dialling, Owned, Globals
<1>6. Loads
  BY <1>1, <1>2, RunNumbers DEF Loads, Begun, Globals
<1>7. Regular
  BY <1>1, <1>2 DEF Regular, Globals
<1> QED BY <1>4, <1>5, <1>6, <1>7 DEF PageInv, PageShape

LEMMA PageInvariant == Spec => []PageInv
<1>1. PageInv /\ [Next]_vars => PageInv'
  BY NextTypes, NextShape DEF PageInv
<1> QED BY <1>1, InitPage, PTL DEF Spec

\* The page's state is well typed: running tells whether the page has a websocket,
\* audio rides webrtc only over the running session's own peer connection, worklet
\* modules are those of open contexts, and connected peer connections are open.
THEOREM PageIsTyped == Spec => []TypeOK
<1>1. PageInv => TypeOK
  BY DEF PageInv
<1> QED BY <1>1, PageInvariant, PTL

\* An idle page has blank globals, so that nothing they own can be open.
LEMMA StoppedPageIsBare ==
  ASSUME PageInv
  PROVE  NothingLeaks
<1> USE DEF PageInv, PageShape
<1> SUFFICES ASSUME ~running, starting = "idle", NEW r \in held
             PROVE  r[1] \in {"in", "out"} /\ (Stale \/ ~NoneCrossed)
  BY DEF NothingLeaks
<1>1. \A g \in Globals : page[g] = 0
  BY DEF Globe, Blank
<1>2. PICK g \in Resource, k \in Runs : r = <<g, k>>
  <2>1. r \in Resource \X Runs
    BY DEF TypeOK
  <2> QED BY <2>1
<1>3. g \notin {"mic", "rtc", "pc"}
  BY <1>1, <1>2, RunNumbers DEF Owned, Globals
<1>4. g \in {"in", "out"}
  BY <1>3 DEF Resource, Globals
<1>5. Stale \/ ~NoneCrossed
  BY <1>1, <1>2, <1>4, RunNumbers DEF Regular, Globals
<1> QED BY <1>2, <1>4, <1>5

\* An idle page has released the microphone and every connection, and every audio
\* context too unless some session set up its audio twice.
THEOREM StoppedPageHoldsNothing == Spec => []NothingLeaks
BY PageInvariant, StoppedPageIsBare, PTL

\* A set within a singleton.
LEMMA AtMostOne ==
  ASSUME NEW S, NEW x, S \subseteq {x}
  PROVE  Cardinality(S) \in {0, 1} /\ (S = {} => Cardinality(S) = 0)
<1>1. S = {} \/ S = {x}
  OBVIOUS
<1> QED BY <1>1, FS_EmptySet, FS_Singleton

\* Capture contexts and peer connections exclude each other: a session with a peer
\* connection has begun no run of initWsAudio, or it is crossed.
LEMMA MicHasOnePath ==
  ASSUME PageInv
  PROVE  OneMicPath
<1> USE DEF PageInv, PageShape
<1> SUFFICES ASSUME running, NoneCrossed, ~Stale
             PROVE  Cardinality(Taps) + Cardinality(linked) <= 1
  BY DEF OneMicPath
<1>1. Taps \subseteq {page.in}
  BY DEF Taps, Stale, Regular
<1>2. linked \subseteq {page.pc}
  BY RunNumbers DEF Owned, TypeOK
<1>3. Taps = {} \/ linked = {}
  <2> SUFFICES ASSUME Taps # {}, linked # {}
               PROVE  FALSE
    OBVIOUS
  <2>1. page.in \in Runs /\ page.pc \in Sessions
    BY <1>1, <1>2 DEF Taps, TypeOK
  <2>2. page.pc = starts /\ page.ws = starts /\ page.in \in {starts, Fallback(starts)} /\ Begun(page.in)
    BY <2>1, RunNumbers DEF Globe, Loads
  <2>3. setup[page.pc] # "none" /\ ~Begun(Fallback(page.pc))
    BY <2>1, RunNumbers DEF Loads
  <2>4. ~Begun(page.pc)
    BY <2>1, <2>3 DEF NoneCrossed, Crossed, Begun
  <2> QED BY <2>2, <2>3, <2>4
<1>4. /\ Cardinality(Taps) \in {0, 1} /\ (Taps = {} => Cardinality(Taps) = 0)
      /\ Cardinality(linked) \in {0, 1} /\ (linked = {} => Cardinality(linked) = 0)
  BY <1>1, <1>2, AtMostOne
<1> QED BY <1>3, <1>4

\* Whatever the order of awaits, fallbacks and restarts, the page sends the microphone
\* over one path at most, unless the transport knob was turned while start() waited
\* for its worklets or a fallback of a stopped session woke up in a later one.
THEOREM MicTakesOnePath == Spec => []OneMicPath
BY PageInvariant, MicHasOnePath, PTL
=============================================================================
