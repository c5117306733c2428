-------------------------- MODULE RedisHelperProofs --------------------------
(***************************************************************************)
(* For every set of sessions: the flag of a RedisHelper vouches for its     *)
(* client while the server is healthy, and a session that meets no other has *)
(* the helper to itself.                                                    *)
(***************************************************************************)
EXTENDS RedisHelper, TLAPS

\* A session that met no other is the only one in progress, and the helper's
\* field and flag are its own from 'ready' on.
Alone(s) ==
    /\ \A t \in InProgress : t = s
    /\ \/ at[s] = "connecting"
       \/ /\ at[s] \in {"ready", "waiting"}
          /\ isConnected
          /\ client = s
          /\ socket[s] = "open"
          /\ at[s] = "waiting" => via[s] = s

HealthyInv ==
    /\ \A s \in Sessions : socket[s] # "reconnecting"
    /\ isConnected => socket[client] = "open"
    /\ \A s \in InProgress \ overlapped : Alone(s)

HelperInv ==
    /\ RedisTypeOK
    /\ \A s \in Sessions :
          socket[s] \in {"open", "reconnecting", "closed"} => client \in Sessions
    /\ \A s \in Sessions : at[s] = "idle" => socket[s] = "none"
    /\ client \in Sessions => at[client] # "idle"
    /\ isConnected => client \in Sessions
    /\ errors = 0 => HealthyInv

-----------------------------------------------------------------------------
\* The invariant holds before the first session.
LEMMA HelperInitially == RedisInit => HelperInv
  <1> SUFFICES ASSUME RedisInit PROVE HelperInv
    OBVIOUS
  <1>1. RedisTypeOK
    <2>1. 0 \in 0 .. MaxErrors /\ 0 \in 0 .. MaxCommands
      BY SessionsAssumption
    <2> QED BY <2>1 DEF RedisInit, RedisTypeOK, Sockets, Places
  <1>2. InProgress = {}
    BY DEF RedisInit, InProgress
  <1>3. HealthyInv
    BY <1>2 DEF RedisInit, HealthyInv
  <1> QED
    BY <1>1, <1>3, SessionsAssumption DEF RedisInit, HelperInv

\* A new session marks itself and everybody in progress as overlapped.
LEMMA StartInitKeeps ==
    ASSUME NEW s \in Sessions, HelperInv, StartInit(s)
    PROVE  HelperInv'
  <1>1. RedisTypeOK'
    BY DEF HelperInv, RedisTypeOK, StartInit, Move, InProgress, Places, Sockets
  <1>2. ASSUME errors' = 0 PROVE HealthyInv'
    <2>1. InProgress' = InProgress \cup {s}
      BY DEF HelperInv, RedisTypeOK, StartInit, Move, InProgress
    <2>2. \A t \in InProgress' \ overlapped' : t = s /\ InProgress = {}
      BY <2>1 DEF StartInit
    <2>3. at'[s] = "connecting"
      BY DEF HelperInv, RedisTypeOK, StartInit, Move
    <2>4. \A t \in InProgress' \ overlapped' : Alone(t)'
      BY <2>1, <2>2, <2>3 DEF Alone
    <2>5. \A t \in Sessions : socket'[t] # "reconnecting"
      BY <1>2 DEF HelperInv, RedisTypeOK, HealthyInv, StartInit
    <2>6. isConnected' => socket'[client'] = "open"
      BY <1>2 DEF HelperInv, RedisTypeOK, HealthyInv, StartInit
    <2> QED
      BY <2>4, <2>5, <2>6 DEF HealthyInv
  <1> QED
    BY <1>1, <1>2 DEF HelperInv, RedisTypeOK, StartInit, Move

\* 'ready' raises the flag and stores the client it raised it for.
LEMMA ReadyKeeps ==
    ASSUME NEW s \in Sessions, HelperInv, Ready(s)
    PROVE  HelperInv'
  <1>1. RedisTypeOK'
    BY DEF HelperInv, RedisTypeOK, Ready, Move, Places, Sockets
  <1>2. HealthyInv' \/ errors' # 0
    BY DEF HelperInv, RedisTypeOK, HealthyInv, Ready, Move, InProgress, Alone
  <1> QED
    BY <1>1, <1>2 DEF HelperInv, RedisTypeOK, Ready, Move

\* get() and set(): the field, the flag and the sockets stay as they are.
CommandStep(s) == Refuse(s) \/ Send(s) \/ Reply(s) \/ Reject(s)

\* get() and set(), answered or not.
LEMMA CommandStepKeeps ==
    ASSUME NEW s \in Sessions, HelperInv, CommandStep(s)
    PROVE  HelperInv'
  <1>1. UNCHANGED <<client, isConnected, socket, overlapped, errors>>
    BY DEF CommandStep, Refuse, Send, Reply, Reject
  <1>2. \A t \in Sessions : at'[t] = "idle" => at[t] = "idle"
    BY DEF HelperInv, RedisTypeOK, CommandStep, Refuse, Send, Reply, Reject, Move
  <1>3. CASE Refuse(s)
    <2>1. RedisTypeOK' /\ (HealthyInv' \/ errors' # 0)
      BY <1>3 DEF HelperInv, RedisTypeOK, HealthyInv, Refuse, Move, InProgress, Alone, Places
    <2> QED BY <1>1, <1>2, <2>1 DEF HelperInv
  <1>4. CASE Send(s)
    <2>1. RedisTypeOK'
      BY <1>4, SessionsAssumption DEF HelperInv, RedisTypeOK, Send, Move, Places
    <2>2. HealthyInv' \/ errors' # 0
      BY <1>4 DEF HelperInv, RedisTypeOK, HealthyInv, Send, Move, InProgress, Alone
    <2> QED BY <1>1, <1>2, <2>1, <2>2 DEF HelperInv
  <1>5. CASE Reply(s)
    <2>1. RedisTypeOK' /\ (HealthyInv' \/ errors' # 0)
      BY <1>5 DEF HelperInv, RedisTypeOK, HealthyInv, Reply, Move, InProgress, Alone, Places
    <2> QED BY <1>1, <1>2, <2>1 DEF HelperInv
  <1>6. CASE Reject(s)
    <2>1. RedisTypeOK' /\ (HealthyInv' \/ errors' # 0)
      BY <1>6 DEF HelperInv, RedisTypeOK, HealthyInv, Reject, Move, InProgress, Alone, Places
    <2> QED BY <1>1, <1>2, <2>1 DEF HelperInv
  <1> QED
    BY <1>3, <1>4, <1>5, <1>6 DEF CommandStep

\* A disconnect() that closes a client lowers the flag with it.
LEMMA DisconnectKeeps ==
    ASSUME NEW s \in Sessions, HelperInv, Disconnect(s)
    PROVE  HelperInv'
  <1>1. RedisTypeOK'
    <2>1. Flush(client) \in [Sessions -> Places]
      BY DEF HelperInv, RedisTypeOK, Flush, Places
    <2>2. [Flush(client) EXCEPT ![s] = "over"] \in [Sessions -> Places]
      BY <2>1 DEF Places
    <2>3. 0 \in 0 .. MaxCommands
      BY SessionsAssumption
    <2> QED
      BY <2>2, <2>3 DEF HelperInv, RedisTypeOK, Disconnect, End, Sockets
  <1>2. HealthyInv' \/ errors' # 0
    BY DEF HelperInv, RedisTypeOK, HealthyInv, Disconnect, End, Flush, InProgress, Alone
  <1>3. \A t \in Sessions : at'[t] = "idle" => at[t] = "idle" /\ t # client
    BY DEF HelperInv, RedisTypeOK, Disconnect, End, Flush
  <1> QED
    BY <1>1, <1>2, <1>3 DEF HelperInv, RedisTypeOK, Disconnect

\* A disconnect() that closes nothing.
LEMMA NoCloseKeeps ==
    ASSUME NEW s \in Sessions, HelperInv, SkipDisconnect(s) \/ DisconnectThrows(s)
    PROVE  HelperInv'
  <1>1. RedisTypeOK'
    BY SessionsAssumption DEF HelperInv, RedisTypeOK, SkipDisconnect, DisconnectThrows,
       End, Places
  <1>2. HealthyInv' \/ errors' # 0
    BY DEF HelperInv, RedisTypeOK, HealthyInv, SkipDisconnect, DisconnectThrows, End,
       InProgress, Alone
  <1> QED
    BY <1>1, <1>2 DEF HelperInv, RedisTypeOK, SkipDisconnect, DisconnectThrows, End

\* None of these happens while the server is healthy.
LEMMA ErrorEventsKeep ==
    ASSUME NEW s \in Sessions, HelperInv, Drop(s) \/ ConnectError(s) \/ Reconnected(s)
    PROVE  HelperInv'
  <1>1. RedisTypeOK'
    <2>1. CASE Drop(s)
      <3>1. errors + 1 \in 0 .. MaxErrors
        BY <2>1, SessionsAssumption DEF HelperInv, RedisTypeOK, Drop
      <3> QED
        BY <2>1, <3>1 DEF HelperInv, RedisTypeOK, Drop, Flush, Places, Sockets
    <2>2. CASE ConnectError(s)
      <3>1. errors + 1 \in 0 .. MaxErrors
        BY <2>2, SessionsAssumption DEF HelperInv, RedisTypeOK, ConnectError
      <3> QED
        BY <2>2, <3>1 DEF HelperInv, RedisTypeOK, ConnectError
    <2>3. CASE Reconnected(s)
      BY <2>3 DEF HelperInv, RedisTypeOK, Reconnected, Sockets
    <2> QED BY <2>1, <2>2, <2>3
  <1>2. errors' # 0
    BY SessionsAssumption DEF HelperInv, RedisTypeOK, HealthyInv, Drop, ConnectError,
       Reconnected
  <1> QED
    BY <1>1, <1>2 DEF HelperInv, RedisTypeOK, Drop, ConnectError, Reconnected, Flush

\* A step that changes nothing keeps the invariant.
LEMMA HelperStutters ==
    ASSUME HelperInv, UNCHANGED redisVars
    PROVE  HelperInv'
  BY DEF redisVars, HelperInv, HealthyInv, RedisTypeOK, InProgress, Alone

\* The invariant of the helper.
THEOREM HelperInvariant == RedisSpec => []HelperInv
  <1>1. HelperInv /\ [RedisNext]_redisVars => HelperInv'
    BY StartInitKeeps, ReadyKeeps, CommandStepKeeps, DisconnectKeeps, NoCloseKeeps,
       ErrorEventsKeep, HelperStutters
    DEF RedisNext, SessionStep, CommandStep, AllOver
  <1> QED
    BY <1>1, HelperInitially, PTL DEF RedisSpec

-----------------------------------------------------------------------------
\* Every variable of the helper keeps its type.
THEOREM HelperTypeCorrect == RedisSpec => []RedisTypeOK
  <1>1. HelperInv => RedisTypeOK
    BY DEF HelperInv
  <1> QED BY <1>1, HelperInvariant, PTL

\* The client field is set whenever the flag is up, whatever the server does.
THEOREM FlagMeansClient == RedisSpec => []ClientDefined
  <1>1. HelperInv => ClientDefined
    BY SessionsAssumption DEF HelperInv, ClientDefined
  <1> QED BY <1>1, HelperInvariant, PTL

\* While the server is healthy the flag means that the client in the field is open,
\* however many sessions share the two.
THEOREM FlagMeansOpen == RedisSpec => []ConnectedMeansOpen
  <1>1. HelperInv => ConnectedMeansOpen
    BY SessionsAssumption DEF HelperInv, HealthyInv, ConnectedMeansOpen
  <1> QED BY <1>1, HelperInvariant, PTL

\* While the server is healthy a session that meets no other is never refused or
\* rejected and will close its own client.
THEOREM SoloSessionsSafe == RedisSpec => []SoloSessionsAreSafe
  <1>1. HelperInv => SoloSessionsAreSafe
    BY DEF HelperInv, HealthyInv, Alone, SoloSessionsAreSafe
  <1> QED BY <1>1, HelperInvariant, PTL

\* While the server is healthy a session that has met no other is over only with
\* its client closed.
LEMMA SoloSessionClosesItsClient ==
    ASSUME HelperInv, [RedisNext]_redisVars,
           NEW s \in InProgress \ overlapped, errors = 0, at'[s] = "over"
    PROVE  socket'[s] = "closed"
  <1>1. Alone(s) /\ \A t \in InProgress : t = s
    BY DEF HelperInv, HealthyInv, Alone
  <1>2. at[s] # "over" /\ s \in Sessions
    BY DEF InProgress
  <1>3. PICK t \in Sessions : Disconnect(t) \/ SkipDisconnect(t) \/ DisconnectThrows(t)
    <2>1. ASSUME NEW t \in Sessions, StartInit(t) \/ Ready(t) \/ CommandStep(t)
          PROVE  FALSE
      BY <1>2, <2>1 DEF HelperInv, RedisTypeOK, StartInit, Ready, CommandStep,
         Refuse, Send, Reply, Reject, Move
    <2>2. ASSUME NEW t \in Sessions, Drop(t) \/ ConnectError(t) \/ Reconnected(t)
          PROVE  FALSE
      BY <1>2, <2>2 DEF HelperInv, RedisTypeOK, Drop, ConnectError, Reconnected,
         Flush
    <2>3. ~ UNCHANGED redisVars /\ ~ AllOver
      BY <1>2 DEF redisVars, AllOver
    <2> QED
      BY <2>1, <2>2, <2>3 DEF RedisNext, SessionStep, CommandStep
  <1>4. t = s
    BY <1>1, <1>3 DEF InProgress, Disconnect, SkipDisconnect, DisconnectThrows
  <1>5. isConnected /\ client = s /\ socket[s] = "open"
    BY <1>1, <1>3, <1>4 DEF Alone, Disconnect, SkipDisconnect, DisconnectThrows
  <1> QED
    BY <1>2, <1>3, <1>4, <1>5 DEF HelperInv, RedisTypeOK, Disconnect, SkipDisconnect,
       DisconnectThrows

\* While the server is healthy only a session that met another one can end
\* and leave its client open.
THEOREM SequentialSessionsLeakNothing == RedisSpec => OnlyOverlapLeaks
  <1>1. HelperInv /\ [RedisNext]_redisVars =>
            [\A s \in InProgress \ overlapped :
               errors = 0 /\ at'[s] = "over" => socket'[s] = "closed"]_redisVars
    BY SoloSessionClosesItsClient
  <1> QED BY <1>1, HelperInvariant, PTL DEF RedisSpec, OnlyOverlapLeaks
=============================================================================
