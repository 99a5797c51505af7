------------------------------ MODULE Sessions -------------------------------
(***************************************************************************)
(* Which connection speaks for which player (session_manager.cpp), and the  *)
(* requests that ask for it (message_dispatcher.cpp).  A connection's own    *)
(* events come one at a time: it opens, it logs in, it sends requests, it    *)
(* closes.  A request that goes through the queue of a room is handled       *)
(* later, on another thread, and may come after the connection has closed.   *)
(*                                                                         *)
(* The manager's methods hold its lock, one at a time.  A handler finds a     *)
(* session without a player under one lock and binds one under another:       *)
(* whatever happens in between, it binds.                                   *)
(***************************************************************************)
EXTENDS Integers, Sequences, FiniteSets

CONSTANTS
    MaxSession,    \* bounds the connections ever accepted,
    MaxBindings,   \* how often a player is bound,
    MaxQueued,     \* and the requests of a connection that are on their way
    Registered     \* the ids of the users that log in

ASSUME SessionBoundsAssumption ==
    MaxSession \in Nat /\ MaxBindings \in Nat /\ MaxQueued \in Nat /\ Registered \subseteq Nat \ {0}

SessionId == 1..MaxSession
NoPlayerId == 0
NoSessionId == 0

\* The player that bindPlayer makes up for a session.
AnonymousId(s) == 10000 + s
MadeUp == {AnonymousId(s) : s \in SessionId}
PlayerId == Registered \cup MadeUp

VARIABLES
    connection,      \* [session -> "new", "open" or "closed"]
    playerOf,        \* sessions_: [session -> its player], a function on those there
    sessionOf,       \* playerSessions_: [player -> session]
    generation,      \* playerBindGeneration_
    queued,          \* [session -> how many of its requests are in queues]
    resolving,       \* [session -> how many are about to bind a player to it]
    loggedIn         \* observed: [user -> the session they logged in on last]

bindingVars == <<playerOf, sessionOf, generation>>
sessionVars == <<connection, bindingVars, queued, resolving, loggedIn>>

Known == DOMAIN playerOf

SessionsInit ==
    /\ connection = [s \in SessionId |-> "new"]
    /\ playerOf = << >>
    /\ sessionOf = [p \in PlayerId |-> NoSessionId]
    /\ generation = [p \in PlayerId |-> 0]
    /\ queued = [s \in SessionId |-> 0]
    /\ resolving = [s \in SessionId |-> 0]
    /\ loggedIn = [p \in Registered |-> NoSessionId]

-----------------------------------------------------------------------------
\* ensureSession.
With(f, s) == IF s \in DOMAIN f THEN f ELSE [t \in DOMAIN f \cup {s} |-> IF t = s THEN 0 ELSE f[t]]

EnsureSession(s) == playerOf' = With(playerOf, s)

\* bindPlayer, for a session that is there.  The session's own bindGeneration, which
\* nothing reads, is left out.
BindPlayer(s, p) ==
    /\ generation[p] < MaxBindings
    /\ generation' = [generation EXCEPT ![p] = @ + 1]
    /\ playerOf' = [With(playerOf, s) EXCEPT ![s] = p]
    /\ sessionOf' = [sessionOf EXCEPT ![p] = s]

Without(f, s) == [t \in DOMAIN f \ {s} |-> f[t]]

\* Mutant of RemoveSession: the player goes, whoever speaks for them now.
RemoveSessionAndPlayer(s) ==
    /\ playerOf' = Without(playerOf, s)
    /\ sessionOf' = IF s \in Known /\ playerOf[s] # NoPlayerId
                    THEN [sessionOf EXCEPT ![playerOf[s]] = NoSessionId] ELSE sessionOf
    /\ UNCHANGED generation

RemoveSession(s) ==
    /\ playerOf' = Without(playerOf, s)
    /\ sessionOf' = IF s \in Known /\ playerOf[s] # NoPlayerId /\ sessionOf[playerOf[s]] = s
                    THEN [sessionOf EXCEPT ![playerOf[s]] = NoSessionId] ELSE sessionOf
    /\ UNCHANGED generation

-----------------------------------------------------------------------------
\* The connect handler; the server numbers its connections.
Connect(s) ==
    /\ connection[s] = "new"
    /\ \A t \in 1..(s - 1) : connection[t] # "new"
    /\ connection' = [connection EXCEPT ![s] = "open"]
    /\ EnsureSession(s)
    /\ UNCHANGED <<sessionOf, generation, queued, resolving, loggedIn>>

\* handleLogin, on the connection's thread.
HandleLogin(s, p) ==
    /\ connection[s] = "open"
    /\ BindPlayer(s, p)
    /\ loggedIn' = [q \in Registered |-> IF q = p THEN s
                                         ELSE IF loggedIn[q] = s THEN NoSessionId ELSE loggedIn[q]]
    /\ UNCHANGED <<connection, queued, resolving>>

\* resolvePlayerId as the connection's thread calls it: create_room, a request
\* that does not name a room there is.  Only a queued request could come between
\* its check and its binding, and that binds the same player.
ResolveAtOnce(s) ==
    /\ connection[s] = "open"
    /\ playerOf[s] = NoPlayerId
    /\ BindPlayer(s, AnonymousId(s))
    /\ UNCHANGED <<connection, queued, resolving, loggedIn>>

\* postRoomMessage, for a request that names its room.
PostRoomMessage(s) ==
    /\ connection[s] = "open"
    /\ queued[s] + resolving[s] < MaxQueued
    /\ queued' = [queued EXCEPT ![s] = @ + 1]
    /\ UNCHANGED <<connection, bindingVars, resolving, loggedIn>>

\* resolvePlayerId in the handler of a queued request: it makes a session for the
\* connection if there is none, be the connection open or not, and looks for its
\* player.  When the session goes between the two, what it reads is undefined;
\* then it binds nothing, or what the next step allows anyway.
BeginResolve(s) ==
    /\ queued[s] > 0
    /\ queued' = [queued EXCEPT ![s] = @ - 1]
    /\ EnsureSession(s)
    /\ resolving' = IF With(playerOf, s)[s] = NoPlayerId
                    THEN [resolving EXCEPT ![s] = @ + 1] ELSE resolving
    /\ UNCHANGED <<connection, sessionOf, generation, loggedIn>>

\* And then it binds one, if the session is still there.
EndResolve(s) ==
    /\ resolving[s] > 0
    /\ resolving' = [resolving EXCEPT ![s] = @ - 1]
    /\ IF s \in Known THEN BindPlayer(s, AnonymousId(s)) ELSE UNCHANGED bindingVars
    /\ UNCHANGED <<connection, queued, loggedIn>>

\* The disconnect handler.
Disconnect(s) ==
    /\ connection[s] = "open"
    /\ connection' = [connection EXCEPT ![s] = "closed"]
    /\ RemoveSession(s)
    /\ UNCHANGED <<queued, resolving, loggedIn>>

SessionsNext ==
    \E s \in SessionId :
        \/ Connect(s)
        \/ \E p \in Registered : HandleLogin(s, p)
        \/ ResolveAtOnce(s)
        \/ PostRoomMessage(s)
        \/ BeginResolve(s)
        \/ EndResolve(s)
        \/ Disconnect(s)

SessionsSpec == SessionsInit /\ [][SessionsNext]_sessionVars

-----------------------------------------------------------------------------
(* Properties *)

\* Who logs in is reached on the connection they did it on last, as long as it is
\* open and logs in as nobody else: the end of an older connection, a log-in that
\* theirs overtook or a late request of any connection never silences them.  With
\* one exception: where the id made up for a connection is a registered user's,
\* that connection, open or closed, may take them by a request without a log-in,
\* and its end leaves them without any.
LogInIsReached ==
    \A p \in Registered : \A s \in SessionId :
        loggedIn[p] = s /\ connection[s] = "open" =>
            \/ sessionOf[p] = s
            \/ \E t \in SessionId : p = AnonymousId(t) /\ sessionOf[p] \in {t, NoSessionId}
=============================================================================
