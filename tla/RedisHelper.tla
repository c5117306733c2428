----------------------------- MODULE RedisHelper -----------------------------
(***************************************************************************)
(* The one RedisHelper of a worker process, shared by every cache session   *)
(* that is in progress at the same time.  A session is one                  *)
(* UserSharedCacheService.handleAsync: init(), one get, up to three sets,    *)
(* disconnect() in a finally.  Each init() creates a client of its own but  *)
(* stores it in the helper's one field, beside one isConnected flag that    *)
(* the events of every client write.                                        *)
(*                                                                          *)
(* The client library (external) is modelled by what it does to its caller: *)
(*   - connect() retries until the server answers, then emits 'ready' and    *)
(*     resolves in the same turn of the event loop;                         *)
(*   - a command on a closed client rejects, on any other it is queued and  *)
(*     answered once the socket is ready;                                   *)
(*   - disconnect() on a closed client throws, otherwise it rejects every    *)
(*     pending command, closes the socket and emits 'end', in one turn;      *)
(*   - a lost socket emits 'error', rejects the pending commands and is       *)
(*     reconnected, which emits 'ready' again.                              *)
(***************************************************************************)
EXTENDS Naturals

CONSTANTS
    Sessions,       \* the cache sessions; also the names of their clients
    NoClient,       \* the helper's client field before the first init()
    MaxCommands,    \* bound: commands a session sends (one get, three sets)
    MaxErrors       \* bound: 'error' events; 0 is a healthy server

ASSUME SessionsAssumption ==
    /\ NoClient \notin Sessions
    /\ MaxCommands \in Nat
    /\ MaxErrors \in Nat

VARIABLES
    client,         \* the client field: the session whose client it holds
    isConnected,    \* the isConnected flag
    socket,         \* socket[s]: the socket of session s's client
    at,             \* at[s]: where session s is
    via,            \* via[s]: the client its pending command was given to
    commands,       \* commands[s]: the commands it has sent so far
    overlapped,     \* history: sessions in progress that met another one
    errors          \* the number of 'error' events so far

redisVars == <<client, isConnected, socket, at, via, commands, overlapped, errors>>

Sockets == {"none", "connecting", "open", "reconnecting", "closed"}

Places == {"idle", "connecting", "ready", "waiting", "rejected", "leaving", "over"}

RedisTypeOK ==
    /\ client \in Sessions \cup {NoClient}
    /\ isConnected \in BOOLEAN
    /\ socket \in [Sessions -> Sockets]
    /\ at \in [Sessions -> Places]
    /\ via \in [Sessions -> Sessions \cup {NoClient}]
    /\ commands \in [Sessions -> 0 .. MaxCommands]
    /\ overlapped \subseteq Sessions
    /\ errors \in 0 .. MaxErrors

RedisInit ==
    /\ client = NoClient
    /\ isConnected = FALSE
    /\ socket = [s \in Sessions |-> "none"]
    /\ at = [s \in Sessions |-> "idle"]
    /\ via = [s \in Sessions |-> NoClient]
    /\ commands = [s \in Sessions |-> 0]
    /\ overlapped = {}
    /\ errors = 0

InProgress == {s \in Sessions : at[s] \notin {"idle", "over"}}

Move(s, place) == at' = [at EXCEPT ![s] = place]

\* The session is over; places is at, or at after the commands it flushed.
End(s, places) ==
    /\ at' = [places EXCEPT ![s] = "over"]
    /\ commands' = [commands EXCEPT ![s] = 0]
    /\ overlapped' = overlapped \ {s}

-----------------------------------------------------------------------------
\* init(true)

StartInit(s) ==
    /\ at[s] = "idle"
    /\ Move(s, "connecting")
    /\ socket' = [socket EXCEPT ![s] = "connecting"]
    /\ overlapped' = IF InProgress = {} THEN overlapped
                                        ELSE overlapped \cup InProgress \cup {s}
    /\ UNCHANGED <<client, isConnected, via, commands, errors>>

\* Variant: the 'ready' handler is attached too late.
ReadyUnheard(s) ==
    /\ at[s] = "connecting"
    /\ Move(s, "ready")
    /\ socket' = [socket EXCEPT ![s] = "open"]
    /\ client' = s
    /\ UNCHANGED <<isConnected, via, commands, overlapped, errors>>

\* Variant: the connected client is not kept.
ReadyUnassigned(s) ==
    /\ at[s] = "connecting"
    /\ Move(s, "ready")
    /\ socket' = [socket EXCEPT ![s] = "open"]
    /\ isConnected' = TRUE
    /\ UNCHANGED <<client, via, commands, overlapped, errors>>

\* 'ready', and the assignment of the awaited client.
Ready(s) ==
    /\ at[s] = "connecting"
    /\ Move(s, "ready")
    /\ socket' = [socket EXCEPT ![s] = "open"]
    /\ isConnected' = TRUE
    /\ client' = s
    /\ UNCHANGED <<via, commands, overlapped, errors>>

-----------------------------------------------------------------------------
\* get() and set()

\* Not connected: the call answers 503 without touching the client.
Refuse(s) ==
    /\ at[s] = "ready"
    /\ commands[s] < MaxCommands
    /\ ~ isConnected
    /\ Move(s, "leaving")
    /\ UNCHANGED <<client, isConnected, socket, via, commands, overlapped, errors>>

\* The command goes to whatever client the field holds by now.
Send(s) ==
    /\ at[s] = "ready"
    /\ commands[s] < MaxCommands
    /\ isConnected
    /\ Move(s, IF socket[client] = "closed" THEN "rejected" ELSE "waiting")
    /\ via' = [via EXCEPT ![s] = client]
    /\ commands' = [commands EXCEPT ![s] = @ + 1]
    /\ UNCHANGED <<client, isConnected, socket, overlapped, errors>>

Reply(s) ==
    /\ at[s] = "waiting"
    /\ socket[via[s]] = "open"
    /\ Move(s, "ready")
    /\ via' = [via EXCEPT ![s] = NoClient]
    /\ UNCHANGED <<client, isConnected, socket, commands, overlapped, errors>>

\* Variant: a rejected command is sent again, however often.
RejectRetries(s) ==
    /\ at[s] = "rejected"
    /\ Move(s, "waiting")
    /\ commands' = [commands EXCEPT ![s] = @ + 1]
    /\ UNCHANGED <<client, isConnected, socket, via, overlapped, errors>>

\* The awaited command rejects inside the session.
Reject(s) ==
    /\ at[s] = "rejected"
    /\ Move(s, "leaving")
    /\ via' = [via EXCEPT ![s] = NoClient]
    /\ UNCHANGED <<client, isConnected, socket, commands, overlapped, errors>>

\* Variant: a client that goes away leaves its pending commands pending.
FlushNothing(c) == at

\* The pending commands of client c reject.
Flush(c) ==
    [t \in Sessions |-> IF at[t] = "waiting" /\ via[t] = c THEN "rejected" ELSE at[t]]

-----------------------------------------------------------------------------
\* disconnect()

\* Variant: 'end' has no handler and the flag is not reset.
DisconnectNoReset(s) ==
    /\ at[s] \in {"ready", "leaving"}
    /\ isConnected
    /\ socket[client] # "closed"
    /\ socket' = [socket EXCEPT ![client] = "closed"]
    /\ End(s, Flush(client))
    /\ UNCHANGED <<client, isConnected, via, errors>>

\* Variant: the flag is lowered and the socket left to time out.
DisconnectLeavesOpen(s) ==
    /\ at[s] \in {"ready", "leaving"}
    /\ isConnected
    /\ socket[client] # "closed"
    /\ isConnected' = FALSE
    /\ End(s, Flush(client))
    /\ UNCHANGED <<client, socket, via, errors>>

\* The session that ends closes whatever client the field holds by now.
Disconnect(s) ==
    /\ at[s] \in {"ready", "leaving"}
    /\ isConnected
    /\ socket[client] # "closed"
    /\ socket' = [socket EXCEPT ![client] = "closed"]
    /\ isConnected' = FALSE
    /\ End(s, Flush(client))
    /\ UNCHANGED <<client, via, errors>>

\* Not connected: nothing is closed, the session's own client included.
SkipDisconnect(s) ==
    /\ at[s] \in {"ready", "leaving"}
    /\ ~ isConnected
    /\ End(s, at)
    /\ UNCHANGED <<client, isConnected, socket, via, errors>>

\* The flag is up but the client in the field is closed: the call throws.
DisconnectThrows(s) ==
    /\ at[s] \in {"ready", "leaving"}
    /\ isConnected
    /\ socket[client] = "closed"
    /\ End(s, at)
    /\ UNCHANGED <<client, isConnected, socket, via, errors>>

-----------------------------------------------------------------------------
\* The events of every client, in use or leaked.

Drop(s) ==
    /\ errors < MaxErrors
    /\ socket[s] = "open"
    /\ socket' = [socket EXCEPT ![s] = "reconnecting"]
    /\ isConnected' = FALSE
    /\ at' = Flush(s)
    /\ errors' = errors + 1
    /\ UNCHANGED <<client, via, commands, overlapped>>

ConnectError(s) ==
    /\ errors < MaxErrors
    /\ socket[s] \in {"connecting", "reconnecting"}
    /\ isConnected' = FALSE
    /\ errors' = errors + 1
    /\ UNCHANGED <<client, socket, at, via, commands, overlapped>>

Reconnected(s) ==
    /\ socket[s] = "reconnecting"
    /\ socket' = [socket EXCEPT ![s] = "open"]
    /\ isConnected' = TRUE
    /\ UNCHANGED <<client, at, via, commands, overlapped, errors>>

-----------------------------------------------------------------------------
SessionStep(s) ==
    \/ Ready(s)
    \/ Refuse(s) \/ Send(s) \/ Reply(s) \/ Reject(s)
    \/ Disconnect(s) \/ SkipDisconnect(s) \/ DisconnectThrows(s)

AllOver ==
    /\ \A s \in Sessions : at[s] = "over"
    /\ UNCHANGED redisVars

RedisNext ==
    \/ \E s \in Sessions :
          StartInit(s) \/ SessionStep(s) \/ Drop(s) \/ ConnectError(s) \/ Reconnected(s)
    \/ AllOver

\* The event loop runs every pending continuation and the server comes back;
\* nobody is obliged to start a session.
RedisFairness ==
    \A s \in Sessions : WF_redisVars(SessionStep(s)) /\ WF_redisVars(Reconnected(s))

RedisSpec == RedisInit /\ [][RedisNext]_redisVars /\ RedisFairness

-----------------------------------------------------------------------------
\* While the server is healthy the flag of redis 34 vouches for the client of
\* redis 33, however many sessions share them: no command and no disconnect()
\* ever meets a closed client.
ConnectedMeansOpen ==
    errors = 0 /\ isConnected => client # NoClient /\ socket[client] = "open"

\* Whatever the server does, the client field is set whenever the flag is up,
\* so get(), set() and disconnect() (redis 90, 104, 110) never dereference
\* undefined.
ClientDefined == isConnected => client # NoClient

\* While the server is healthy a session that met no other between its init() and
\* its disconnect() has the helper to itself: nothing is refused or rejected,
\* and the client it will close is its own.
SoloSessionsAreSafe ==
    errors = 0 =>
        \A s \in InProgress \ overlapped :
            \/ at[s] = "connecting"
            \/ /\ at[s] \in {"ready", "waiting"}
               /\ isConnected
               /\ client = s
               /\ socket[s] = "open"

\* While the server is healthy a session leaves its own client open behind it
\* (redis 109 skips what another session's flag hides) only if it met another
\* session: sessions that follow one another leak no connection to Redis.
OnlyOverlapLeaks ==
    [][\A s \in InProgress \ overlapped :
         errors = 0 /\ at'[s] = "over" => socket'[s] = "closed"]_redisVars

\* A session that has started ends: no await on the shared client hangs.
EverySessionEnds == \A s \in Sessions : at[s] = "connecting" ~> at[s] = "over"
=============================================================================
