----------------------------- MODULE Transport -----------------------------
(***************************************************************************)
(* The engine's and the gateway's side of a session's audio path: the      *)
(* sessions map, the upgrade handler, the offer relay and the gatewayWs of *)
(* server.js, and the life of a gateway call as the engine sees it (its    *)
(* inside is Gateway). Module Client adds the browser.                     *)
(*                                                                         *)
(* The page opens one websocket per session, and posts at most one offer   *)
(* for each, so a session is named by the number of its websocket and has  *)
(* at most one gateway call.                                               *)
(***************************************************************************)
EXTENDS Naturals

CONSTANT MaxSessions   \* bound: sessions one page starts

ASSUME TransportAssumption == MaxSessions \in Nat \ {0}

Sessions == 1..MaxSessions

VARIABLES
  socket,     \* the browser's websocket, as readyState tells the page
  session,    \* "none", "open" (an entry of the sessions map), "gone"
  wsAudio,    \* a use_ws_audio message is on its way
  offer,      \* POST /rtc/offer: "none" (also when refused), "posted", "attached",
              \* "answered"
  sdp,        \* the peer connection that offer and its call describe, 0 for none
  gatewayWs,  \* session.gatewayWs is set
  gwSock,     \* the engine's end of the gateway's websocket
  call        \* the gateway's session: "none", "setup", "up", or "over" until its
              \* websocket has closed

engineVars == <<session, wsAudio, offer, sdp, gatewayWs, gwSock, call>>

SocketState == {"none", "connecting", "open", "closing", "closed"}

TransportTypeOK ==
  /\ socket \in [Sessions -> SocketState]
  /\ session \in [Sessions -> {"none", "open", "gone"}]
  /\ wsAudio \in [Sessions -> BOOLEAN]
  /\ offer \in [Sessions -> {"none", "posted", "attached", "answered"}]
  /\ sdp \in [Sessions -> {0} \cup Sessions]
  /\ gatewayWs \in [Sessions -> BOOLEAN]
  /\ gwSock \in [Sessions -> {"none", "open", "closing"}]
  /\ call \in [Sessions -> {"none", "setup", "up", "over"}]

-----------------------------------------------------------------------------
(* A slip of the code that a property notices; no action uses it. *)

AnySession(s) == TRUE   \* the upgrade handler does not look the sid up

-----------------------------------------------------------------------------
(* The pieces the handlers are made of. *)

\* close() of a websocket, on either side.
ClosedSocket(state) == IF state \in {"connecting", "open"} THEN "closing" ELSE state

\* sessions.has(sid)
Known(s) == session[s] = "open"

\* session.gatewayWs?.close()
GatewayHungUp(s) ==
  IF gatewayWs[s] THEN [gwSock EXCEPT ![s] = ClosedSocket(@)] ELSE gwSock

\* session.gatewayWs = null, after use_ws_audio or in the close and error handlers.
Detached(s) == [gatewayWs EXCEPT ![s] = FALSE]

TransportInit ==
  /\ socket = [s \in Sessions |-> "none"]
  /\ session = [s \in Sessions |-> "none"]
  /\ wsAudio = [s \in Sessions |-> FALSE]
  /\ offer = [s \in Sessions |-> "none"]
  /\ sdp = [s \in Sessions |-> 0]
  /\ gatewayWs = [s \in Sessions |-> FALSE]
  /\ gwSock = [s \in Sessions |-> "none"]
  /\ call = [s \in Sessions |-> "none"]

-----------------------------------------------------------------------------
(* The browser's websocket at the engine. *)

\* Upgrade of /ws: the session is made. The browser may have given up meanwhile;
\* otherwise it is told at once.
Accepts(s) ==
  /\ session[s] = "none" /\ socket[s] \in {"connecting", "closing"}
  /\ session' = [session EXCEPT ![s] = "open"]
  /\ socket' = [socket EXCEPT ![s] = IF @ = "connecting" THEN "open" ELSE @]
  /\ UNCHANGED <<wsAudio, offer, sdp, gatewayWs, gwSock, call>>

\* The use_ws_audio message: the gateway is closed and forgotten.
UseWsAudio(s) ==
  /\ Known(s) /\ wsAudio[s]
  /\ wsAudio' = [wsAudio EXCEPT ![s] = FALSE]
  /\ gwSock' = GatewayHungUp(s)
  /\ gatewayWs' = Detached(s)
  /\ UNCHANGED <<socket, session, offer, sdp, call>>

\* The close or error event: the session leaves the map and is destroyed. A
\* message sent before a clean close is read before it; otherwise it is lost.
SessionEnds(s) ==
  /\ Known(s)
  /\ socket[s] = "closed" \/ (socket[s] = "closing" /\ ~wsAudio[s])
  /\ session' = [session EXCEPT ![s] = "gone"]
  /\ wsAudio' = [wsAudio EXCEPT ![s] = FALSE]
  /\ gwSock' = GatewayHungUp(s)
  /\ UNCHANGED <<socket, offer, sdp, gatewayWs, call>>

-----------------------------------------------------------------------------
(* The offer and the gateway's socket. *)

\* handleRtcOffer passes the offer on, and startCall dials the engine before it
\* answers. The upgrade handler attaches it to a session that is there. Otherwise
\* the page is refused: the session is unknown to the relay (404) or to the upgrade
\* handler (the socket is destroyed), or the gateway is unreachable or fails.
Dials(s) ==
  /\ offer[s] = "posted"
  /\ \/ /\ Known(s)
        /\ offer' = [offer EXCEPT ![s] = "attached"]
        /\ gatewayWs' = [gatewayWs EXCEPT ![s] = TRUE]
        /\ gwSock' = [gwSock EXCEPT ![s] = "open"]
        /\ call' = [call EXCEPT ![s] = "setup"]
        /\ UNCHANGED sdp
     \/ /\ offer' = [offer EXCEPT ![s] = "none"]
        /\ sdp' = [sdp EXCEPT ![s] = 0]
        /\ UNCHANGED <<gatewayWs, gwSock, call>>
  /\ UNCHANGED <<socket, session, wsAudio>>

\* The rest of startCall: an answer, or a failed negotiation that ends the call.
GatewayAnswers(s) ==
  /\ offer[s] = "attached"
  /\ \E ok \in BOOLEAN :
       /\ offer' = [offer EXCEPT ![s] = IF ok THEN "answered" ELSE "none"]
       /\ call' = [call EXCEPT ![s] = IF ok THEN "up" ELSE "over"]
  /\ UNCHANGED <<socket, session, wsAudio, sdp, gatewayWs, gwSock>>

\* The gateway's session.close(), when either of its ends is lost.
GatewayHangsUp(s) ==
  /\ call[s] = "up"
  /\ call' = [call EXCEPT ![s] = "over"]
  /\ UNCHANGED <<socket, session, wsAudio, offer, sdp, gatewayWs, gwSock>>

\* The close or error event of the gateway's socket. Until it comes the engine goes
\* on sending to a gateway that is no longer there.
GatewaySocketCloses(s) ==
  /\ call[s] = "over"
  /\ call' = [call EXCEPT ![s] = "none"]
  /\ sdp' = [sdp EXCEPT ![s] = 0]
  /\ gwSock' = [gwSock EXCEPT ![s] = "none"]
  /\ gatewayWs' = Detached(s)
  /\ UNCHANGED <<socket, session, wsAudio, offer>>

\* The engine has nothing left of a session.
EngineDone(s) ==
  session[s] = "gone" /\ call[s] = "none" /\ offer[s] \notin {"posted", "attached"}

TransportStep(s) ==
  \/ UseWsAudio(s) \/ SessionEnds(s) \/ Dials(s) \/ GatewayAnswers(s)
  \/ GatewayHangsUp(s) \/ GatewaySocketCloses(s)

-----------------------------------------------------------------------------
(* A property of this half. *)

\* A session that has ended keeps no usable gateway socket and gets none: a
\* gateway that dials late is turned away (destroy, the upgrade handler).
GoneSessionsAreDetached ==
  \A s \in Sessions : session[s] = "gone" => gwSock[s] # "open"
=============================================================================
