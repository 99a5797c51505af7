------------------------------ MODULE Accounts -------------------------------
(***************************************************************************)
(* Accounts and tokens: the requests of the HTTP server (http_server.cpp),  *)
(* each on a thread of its own, the service they call (auth_service.cpp),   *)
(* the tokens (token_manager.cpp) and the users, who are kept in memory and  *)
(* written to one file (user_store.cpp).                                   *)
(*                                                                         *)
(* A request is one step at each lock it takes.  The store's methods save   *)
(* the file under its lock, in place: a crash or an error in the middle       *)
(* leaves the beginning of what was being written, and the file may not open  *)
(* at all.  The request is answered the same whatever became of the save.     *)
(* A look-up between two steps that nothing can invalidate belongs to the    *)
(* step after it.  A refused request changes nothing.                        *)
(*                                                                         *)
(* Names are those that come out of the file as they went in, without quotes *)
(* and backslashes.  A picture is known by the user it was uploaded for.     *)
(* Nothing ever updates the statistics, nor revokes a token but by issuing   *)
(* the next one.                                                           *)
(***************************************************************************)
EXTENDS Integers, Sequences, FiniteSets

CONSTANTS
    Client,       \* those who send requests, one at a time each
    Nickname,
    MaxUsers,     \* bounds the users there are at a time,
    MaxId,        \* the ids ever given,
    MaxTokens     \* and the tokens ever issued

FirstId == 10001
NoOne == 0

ASSUME AccountBoundsAssumption == MaxUsers \in Nat /\ MaxId \in Nat /\ MaxTokens \in Nat

VARIABLES
    users,        \* users_: a sequence of records
    nextId,       \* nextId_
    disk,         \* what a reader finds in the file: its next_id and users
    serving,      \* the process runs
    tokenOf,      \* tokens_: [id -> the number of its token], 0 without one
    issued,       \* how many tokens were issued
    held,         \* [client -> the token it was given last: its user and number]
    asking,       \* [client -> where its request is]
    promised,     \* observed: what was answered, ids with a name and ids with a picture,
    saved,        \* whether the last save wrote the whole file,
    lapsed        \* and the answers given before a stop that came when it had not

storeVars == <<users, nextId, disk, saved>>
tokenVars == <<tokenOf, issued>>
accountsVars == <<storeVars, serving, tokenVars, held, asking, promised, lapsed>>

Id == FirstId..MaxId
Presets == {"none", "avatar_2"}
NoToken == [user |-> NoOne, number |-> 0]
NothingAsked == [op |-> "none"]

AccountsInit ==
    /\ users = << >> /\ nextId = FirstId
    /\ disk = [nextId |-> FirstId, users |-> << >>]
    /\ serving = TRUE
    /\ tokenOf = [i \in Id |-> 0] /\ issued = 0
    /\ held = [c \in Client |-> NoToken]
    /\ asking = [c \in Client |-> NothingAsked]
    /\ promised = {} /\ saved = TRUE /\ lapsed = {}

-----------------------------------------------------------------------------
(* The store *)

WithUser(n) == Append(users, [id |-> nextId, nickname |-> n, secret |-> TRUE,
                              avatar |-> NoOne, preset |-> "avatar_2"])
WithAvatar(i) == [k \in DOMAIN users |-> IF users[k].id = i THEN [users[k] EXCEPT !.avatar = i] ELSE users[k]]
WithPreset(i, p) == [k \in DOMAIN users |-> IF users[k].id = i THEN [users[k] EXCEPT !.preset = p] ELSE users[k]]

\* What is left of a record that the file ends in: nothing after some field.
Beginnings(u) ==
    LET bare == [u EXCEPT !.avatar = NoOne, !.preset = "none"]
    IN  {u, [u EXCEPT !.preset = "none"], bare, [bare EXCEPT !.secret = FALSE]}

\* What load finds in a beginning of a file.
Torn(us, next) ==
    {[nextId |-> FirstId, users |-> << >>]}
        \cup {[nextId |-> next, users |-> SubSeq(us, 1, k)] : k \in 0..Len(us)}
        \cup UNION {{[nextId |-> next, users |-> Append(SubSeq(us, 1, k - 1), u)] :
                        u \in Beginnings(us[k])} : k \in DOMAIN us}

\* The end of registerUser, updateAvatar and updateAvatarPreset.  The file may be
\* written whole, or in part, or not be opened; only the log tells.
Save(us, next) ==
    /\ users' = us
    /\ nextId' = next
    /\ \/ disk' = [nextId |-> next, users |-> us] /\ saved' = TRUE
       \/ disk' \in {disk} \cup Torn(us, next) /\ saved' = FALSE

\* load looks for a field of a record, which is not written when it is empty, to
\* the end of the file: it finds that of a later record.
Found(us, k, field, empty) ==
    LET later == {j \in k..Len(us) : us[j][field] # empty}
    IN  IF later = {} THEN empty ELSE us[CHOOSE j \in later : \A i \in later : j <= i][field]

Records(us) ==
    [k \in DOMAIN us |-> [us[k] EXCEPT !.avatar = Found(us, k, "avatar", NoOne),
                                       !.preset = Found(us, k, "preset", "none")]]

\* Mutant of Loaded: ids are given from the first one again.
LoadedAnew(f) == [nextId |-> FirstId, users |-> Records(f.users)]

Loaded(f) == [nextId |-> f.nextId, users |-> Records(f.users)]

-----------------------------------------------------------------------------
(* Requests *)

Asks(c, op) == serving /\ asking[c].op = op
Answered(c) == asking' = [asking EXCEPT ![c] = NothingAsked]
AnsweredThat(c, a) == Answered(c) /\ promised' = promised \cup {a} /\ lapsed' = lapsed \ {a}

\* registerUser: the name is looked for and added under one lock.
Register(c, n) ==
    /\ Asks(c, "none")
    /\ Len(users) < MaxUsers /\ nextId < MaxId
    /\ \A k \in DOMAIN users : users[k].nickname # n
    /\ Save(WithUser(n), nextId + 1)
    /\ asking' = [asking EXCEPT ![c] = [op |-> "issue", user |-> nextId, nickname |-> n]]
    /\ UNCHANGED <<serving, tokenVars, held, promised, lapsed>>

Login(c, n) ==
    /\ Asks(c, "none")
    /\ \E k \in DOMAIN users :
        /\ users[k].nickname = n /\ users[k].secret
        /\ asking' = [asking EXCEPT ![c] = [op |-> "issue", user |-> users[k].id, nickname |-> n]]
    /\ UNCHANGED <<storeVars, serving, tokenVars, held, promised, lapsed>>

\* The end of registerUser and login: the token replaces the user's last one.
IssueToken(c) ==
    /\ Asks(c, "issue")
    /\ issued < MaxTokens
    /\ issued' = issued + 1
    /\ LET i == asking[c].user IN
        /\ tokenOf' = [tokenOf EXCEPT ![i] = issued + 1]
        /\ held' = [held EXCEPT ![c] = [user |-> i, number |-> issued + 1]]
        /\ AnsweredThat(c, [id |-> i, nickname |-> asking[c].nickname])
    /\ UNCHANGED <<storeVars, serving>>

\* validateToken, which the updates begin with; by the next step the token may
\* have been replaced.
ValidateToken(c, op) ==
    /\ Asks(c, "none")
    /\ held[c] # NoToken /\ tokenOf[held[c].user] = held[c].number
    /\ asking' = [asking EXCEPT ![c] = [op |-> op, user |-> held[c].user]]
    /\ UNCHANGED <<storeVars, serving, tokenVars, held, promised, lapsed>>

\* Mutant of UpdateAvatar: the file is not written.
UpdateAvatarInMemory(c) ==
    /\ Asks(c, "avatar")
    /\ users' = WithAvatar(asking[c].user)
    /\ AnsweredThat(c, [id |-> asking[c].user, picture |-> TRUE])
    /\ UNCHANGED <<nextId, disk, saved, serving, tokenVars, held>>

\* saveUserAvatar, whose file belongs to the user, and updateAvatar.
UpdateAvatar(c) ==
    /\ Asks(c, "avatar")
    /\ Save(WithAvatar(asking[c].user), nextId)
    /\ AnsweredThat(c, [id |-> asking[c].user, picture |-> TRUE])
    /\ UNCHANGED <<serving, tokenVars, held>>

UpdateAvatarPreset(c, p) ==
    /\ Asks(c, "preset")
    /\ Save(WithPreset(asking[c].user, p), nextId)
    /\ Answered(c)
    /\ UNCHANGED <<serving, tokenVars, held, promised, lapsed>>

\* A token is forgotten when it is shown after its time.
ExpireToken(i) ==
    /\ serving /\ tokenOf[i] # 0
    /\ tokenOf' = [tokenOf EXCEPT ![i] = 0]
    /\ UNCHANGED <<storeVars, serving, issued, held, asking, promised, lapsed>>

-----------------------------------------------------------------------------
(* The process stops, and starts again *)

Stop(f) ==
    /\ serving /\ serving' = FALSE
    /\ disk' = f
    /\ users' = << >> /\ nextId' = FirstId
    /\ tokenOf' = [i \in Id |-> 0]
    /\ asking' = [c \in Client |-> NothingAsked]
    /\ UNCHANGED <<issued, held, promised, saved>>

Crash == Stop(disk) /\ lapsed' = IF saved THEN lapsed ELSE promised

\* Somebody's save is cut short.
CrashInSave ==
    \E c \in Client :
        /\ \/ /\ asking[c].op = "none" /\ nextId < MaxId /\ Len(users) < MaxUsers
              /\ \E n \in Nickname :
                    /\ \A k \in DOMAIN users : users[k].nickname # n
                    /\ \E f \in Torn(WithUser(n), nextId + 1) : Stop(f)
           \/ /\ asking[c].op = "avatar"
              /\ \E f \in Torn(WithAvatar(asking[c].user), nextId) : Stop(f)
           \/ /\ asking[c].op = "preset"
              /\ \E p \in Presets : \E f \in Torn(WithPreset(asking[c].user, p), nextId) : Stop(f)
        /\ lapsed' = promised

\* UserStore's constructor.
Restart ==
    /\ ~serving /\ serving' = TRUE
    /\ users' = Loaded(disk).users
    /\ nextId' = Loaded(disk).nextId
    /\ saved' = TRUE
    /\ UNCHANGED <<disk, tokenVars, held, asking, promised, lapsed>>

AccountsNext ==
    \/ \E c \in Client :
        \/ \E n \in Nickname : Register(c, n) \/ Login(c, n)
        \/ \E op \in {"avatar", "preset"} : ValidateToken(c, op)
        \/ IssueToken(c)
        \/ UpdateAvatar(c)
        \/ \E p \in Presets : UpdateAvatarPreset(c, p)
    \/ \E i \in Id : ExpireToken(i)
    \/ Crash
    \/ CrashInSave
    \/ Restart

AccountsSpec == AccountsInit /\ [][AccountsNext]_accountsVars

-----------------------------------------------------------------------------
(* Properties *)

\* No two users have one id or one name, and the next user gets another id, also
\* when the file that was read had been cut short.
UsersDistinct ==
    /\ \A k \in DOMAIN users : users[k].id < nextId
    /\ \A j, k \in DOMAIN users :
           users[j].id = users[k].id \/ users[j].nickname = users[k].nickname => j = k

\* An answer is that an id has been given with a name, or a picture taken for one.
KeptIn(us, a) ==
    \E k \in DOMAIN us :
        /\ us[k].id = a.id
        /\ IF "picture" \in DOMAIN a THEN us[k].avatar = a.id
           ELSE us[k].nickname = a.nickname /\ us[k].secret

\* What was answered is kept over stops and restarts, unless the process stopped in
\* a save or after one that had failed: who was given an account has it, and who
\* sent a picture has it.
PromisesKept == serving => \A a \in promised \ lapsed : KeptIn(users, a)

\* A user's picture is the one that was uploaded for that user.
AvatarsAreOwn == \A k \in DOMAIN users : users[k].avatar \in {NoOne, users[k].id}
=============================================================================
