----------------------------- MODULE Handshake -----------------------------
(***************************************************************************)
(* How a connection gets into a room: initialize_connection and            *)
(* manage_room, from the accepted socket to the player loop.  The client   *)
(* sends a token, its version and a room message; the server answers OK_   *)
(* twice and then the room's details, or ERR at any point.  Connections    *)
(* share the token cache and the map of rooms.                             *)
(*                                                                         *)
(* A room is named by the connection that created it, because an id may be *)
(* drawn twice.  A connection is used once.  What happens in a room is     *)
(* module Room's, who waits for whose lock is Lobby's.                     *)
(***************************************************************************)
EXTENDS RoomId, FiniteSets

CONSTANTS Conn,        \* connections
          Token,       \* tokens that clients send
          Genuine,     \* those that the token service vouches for
          Account,     \* accounts
          AccountOf,   \* whose a token is, or claims to be
          Xertrov,     \* XERTROV_WSID
          CacheCap,    \* capacity of TOKEN_CACHE (4096)
          Configs,     \* whether config.json has the plugin: a set of BOOLEAN
          Drawn,       \* ids that generate_room_id may draw
          Typed,       \* texts that clients type for an id
          Password,    \* passwords, NoPassword among them
          NoPassword,
          Env,         \* map environments; 0 is Stadium
          Slow,        \* bound: the peers whose queue may overflow meanwhile
          None

\* What is kept of RoomConnectionDeets and of RoomCreationDeets.
JoinDeets == [text : Typed, pw : Password]
RoomDeets == [id : Drawn, pw : Password, env : Env, owner : Account]

ASSUME HandshakeAssumption ==
  /\ Genuine \subseteq Token
  /\ AccountOf \in [Token -> Account]
  /\ None \notin Account \cup Conn \cup Token \cup JoinDeets \cup RoomDeets
  /\ CacheCap \in Nat \ {0}
  /\ Configs \subseteq BOOLEAN
  /\ Drawn \subseteq RoomIds
  /\ Typed \subseteq Seq(Nat)
  /\ NoPassword \in Password
  /\ Env \subseteq Nat /\ 0 \in Env
  /\ Slow \subseteq Conn

VARIABLES
  phase,       \* where the task of a connection is
  token,       \* the token it has sent
  acct,        \* account_id of its TokenResp
  version,     \* proto_version, 0 until it is known
  join,        \* the RoomConnectionDeets it has sent, or None
  at,          \* the room it has been let into, by its creator, or None
  said,        \* what the server has answered: "OK", "ERR", the room's details
               \* as "room", "part" of them; an ERR counts if it is begun
  room,        \* the room each connection has created, or None
  pending,     \* creators whose room is not yet in the map
  rooms,       \* the map of rooms: the creator of the one with an id, or None
  cache,       \* TOKEN_CACHE: the account of a token, or None
  configured,  \* check_token finds the plugin's configuration
  here,        \* connections whose peer has not hung up
  shut         \* who has shut the player of a connection down

ownVars == <<phase, token, acct, version, join, at, said>>
roomVars == <<room, pending, rooms>>
hsVars == <<ownVars, roomVars, cache, configured, here, shut>>

Phases == {"new", "token", "check", "http", "version", "ask", "find", "enter",
           "details", "ended", "loop", "gone"}

Init ==
  /\ phase = [c \in Conn |-> "new"]
  /\ token = [c \in Conn |-> None]
  /\ acct = [c \in Conn |-> None]
  /\ version = [c \in Conn |-> 0]
  /\ join = [c \in Conn |-> None]
  /\ at = [c \in Conn |-> None]
  /\ said = [c \in Conn |-> <<>>]
  /\ room = [c \in Conn |-> None]
  /\ pending = {}
  /\ rooms = [id \in Drawn |-> None]
  /\ cache = [t \in Token |-> None]
  /\ configured \in Configs
  /\ here = Conn
  /\ shut = [c \in Conn |-> {}]

-----------------------------------------------------------------------------
(* Steps of a connection's task.                                           *)

Go(c, from, to) == phase[c] = from /\ phase' = [phase EXCEPT ![c] = to]
Say(c, what) == said' = [said EXCEPT ![c] = @ \o what]

\* The task ends with ERR; where it waits, by timeout, by EOF or because of
\* what it has read.
Refuse(c, from, answer) ==
  /\ Go(c, from, "gone")
  /\ Say(c, answer)
  /\ UNCHANGED <<token, acct, version, join, at, roomVars, cache, configured, here, shut>>

\* peer_addr fails if the peer has already disconnected, and need not.
NoPeer(c) == c \notin here /\ Refuse(c, "new", <<>>)

Accept(c) ==
  /\ Go(c, "new", "token")
  /\ UNCHANGED <<token, acct, version, join, at, said, roomVars, cache, configured, here, shut>>

ReadToken(c, t) ==
  /\ Go(c, "token", "check")
  /\ token' = [token EXCEPT ![c] = t]
  /\ UNCHANGED <<acct, version, join, at, said, roomVars, cache, configured, here, shut>>

\* 20 s, EOF, no UTF-8, more than 10000 bytes, or fewer than 100.
NoToken(c) == Refuse(c, "token", <<"ERR">>)

Unconfigured(c) == ~configured /\ Refuse(c, "check", <<"ERR">>)

\* Slip: the token stands for its account.
VerifiedRaw(c, from, a) ==
  /\ Go(c, from, "version")
  /\ acct' = [acct EXCEPT ![c] = token[c]]
  /\ Say(c, <<"OK">>)
  /\ UNCHANGED <<token, version, join, at, roomVars, configured, here, shut>>

Verified(c, from, a) ==
  /\ Go(c, from, "version")
  /\ acct' = [acct EXCEPT ![c] = a]
  /\ Say(c, <<"OK">>)
  /\ UNCHANGED <<token, version, join, at, roomVars, configured, here, shut>>

CacheHit(c) ==
  /\ Verified(c, "check", cache[token[c]])
  /\ configured /\ cache[token[c]] # None
  /\ UNCHANGED cache

\* The lock of the cache is released before the request, ...
CacheMiss(c) ==
  /\ Go(c, "check", "http")
  /\ configured /\ cache[token[c]] = None
  /\ UNCHANGED <<token, acct, version, join, at, said, roomVars, cache, configured, here, shut>>

Cached == {t \in Token : cache[t] # None}

\* ... so two requests for one token may be under way.  A full cache loses
\* another token.
HttpOk(c) ==
  /\ Verified(c, "http", AccountOf[token[c]])
  /\ token[c] \in Genuine
  /\ LET more == [cache EXCEPT ![token[c]] = AccountOf[token[c]]]
     IN  \/ /\ Cardinality(Cached \cup {token[c]}) <= CacheCap
            /\ cache' = more
         \/ /\ Cardinality(Cached \cup {token[c]}) > CacheCap
            /\ \E t \in Cached \ {token[c]} : cache' = [more EXCEPT ![t] = None]

\* Slip: the answer is cached before its status is looked at.
HttpFailCached(c) ==
  /\ Go(c, "http", "gone")
  /\ Say(c, <<"ERR">>)
  /\ cache' = [cache EXCEPT ![token[c]] = AccountOf[token[c]]]
  /\ UNCHANGED <<token, acct, version, join, at, roomVars, configured, here, shut>>

\* A status other than 200, no TokenResp, 10 s, or no connection.
HttpFail(c) == Refuse(c, "http", <<"ERR">>)

ReadVersion(c, v) ==
  /\ Go(c, "version", "ask")
  /\ version' = [version EXCEPT ![c] = v]
  /\ UNCHANGED <<token, acct, join, at, said, roomVars, cache, configured, here, shut>>

\* Slip: an early return without an answer.
BadVersionSilent(c) == Refuse(c, "version", <<>>)

\* 20 s, EOF, or no version that client_proto_version knows.
BadVersion(c) == Refuse(c, "version", <<"ERR">>)

\* Slip: the room message is waited for without a timeout.
NoAskUntimed(c) == c \notin here /\ Refuse(c, "ask", <<"ERR">>)

\* 30 s, EOF or a malformed string.
NoAsk(c) == Refuse(c, "ask", <<"ERR">>)

\* The second OK_ cannot be written.
AskHangup(c) == c \notin here /\ Refuse(c, "ask", <<>>)

AskUnknown(c) == Refuse(c, "ask", <<"OK", "ERR">>)

\* start_new_room: the room has its creator and its creator's player loop.
Create(c, id, pw, env) ==
  /\ Go(c, "ask", "details")
  /\ Say(c, <<"OK">>)
  /\ room' = [room EXCEPT ![c] = [id |-> id, pw |-> pw, env |-> env, owner |-> acct[c]]]
  /\ pending' = pending \cup {c}
  /\ at' = [at EXCEPT ![c] = c]
  /\ UNCHANGED <<token, acct, version, join, rooms, cache, configured, here, shut>>

AskJoin(c, text, pw) ==
  /\ Go(c, "ask", "find")
  /\ Say(c, <<"OK">>)
  /\ join' = [join EXCEPT ![c] = [text |-> text, pw |-> pw]]
  /\ UNCHANGED <<token, acct, version, at, roomVars, cache, configured, here, shut>>

\* The room in the map for what c has typed, or None.
Found(c) ==
  LET text == join[c].text
  IN  IF IsRoomIdStr(text) /\ StrToRoomId(text) \in Drawn
      THEN rooms[StrToRoomId(text)] ELSE None

\* Slip: any version may enter.
MayEnterUngated(c, r) == r.pw \in {NoPassword, join[c].pw} \/ acct[c] = Xertrov

MayEnter(c, r) ==
  /\ r.env # 0 => version[c] >= 6
  /\ r.pw \in {NoPassword, join[c].pw} \/ acct[c] = Xertrov

\* A room may be full for anybody but Xertrov and its owner.
MayBeFull(c, r) == acct[c] \notin {Xertrov, r.owner}

TurnAway(c) ==
  /\ Refuse(c, "find", <<"ERR">>)
  /\ Found(c) # None => LET r == room[Found(c)] IN ~MayEnter(c, r) \/ MayBeFull(c, r)

\* Slip: the first room whose id begins as typed is good enough.
AdmitPrefix(c) ==
  \E o \in Conn :
    /\ Go(c, "find", "enter")
    /\ room[o] # None /\ RoomIdToStr(room[o].id)[1] = join[c].text[1]
    /\ MayEnter(c, room[o])
    /\ at' = [at EXCEPT ![c] = o]
    /\ UNCHANGED <<token, acct, version, join, said, roomVars, cache, configured, here, shut>>

Admit(c) ==
  /\ Go(c, "find", "enter")
  /\ Found(c) # None
  /\ MayEnter(c, room[Found(c)])
  /\ at' = [at EXCEPT ![c] = Found(c)]
  /\ UNCHANGED <<token, acct, version, join, said, roomVars, cache, configured, here, shut>>

\* add_player_via_join has pushed the player and its loop starts.
Enter(c) ==
  /\ Go(c, "enter", "details")
  /\ UNCHANGED <<token, acct, version, join, at, said, roomVars, cache, configured, here, shut>>

\* send_player_room_details, whose errors are ignored; it may still be polled
\* although shutdown has been signalled.
Details(c) ==
  /\ Go(c, "details", "loop")
  /\ Say(c, <<"room">>)
  /\ UNCHANGED <<token, acct, version, join, at, roomVars, cache, configured, here, shut>>

\* Slip: the task also ends when the details cannot be written.
DetailsCutUnasked(c) ==
  /\ Go(c, "details", "ended")
  /\ \E answer \in {<<>>, <<"part">>} : Say(c, answer)
  /\ UNCHANGED <<token, acct, version, join, at, roomVars, cache, configured, here, shut>>

\* The shutdown signal wins the select!, which drops the details, unwritten
\* or in the middle.
DetailsCut(c) ==
  /\ shut[c] # {}
  /\ Go(c, "details", "ended")
  /\ \E answer \in {<<>>, <<"part">>} : Say(c, answer)
  /\ UNCHANGED <<token, acct, version, join, at, roomVars, cache, configured, here, shut>>

\* Player::shutdown closes the stream.
Close(c) == Refuse(c, "ended", <<>>)

\* The player loop ends; what it answers meanwhile is module Session's.
Leave(c) == Refuse(c, "loop", <<>>)

ServerStep(c) ==
  \/ NoPeer(c) \/ Accept(c) \/ NoToken(c) \/ Unconfigured(c) \/ CacheHit(c) \/ CacheMiss(c)
  \/ HttpOk(c) \/ HttpFail(c) \/ BadVersion(c) \/ NoAsk(c) \/ AskHangup(c)
  \/ TurnAway(c) \/ Admit(c) \/ Enter(c) \/ Details(c) \/ DetailsCut(c) \/ Close(c)

\* What the client makes the server read.
ClientStep(c) ==
  \/ \E t \in Token : ReadToken(c, t)
  \/ \E v \in {5, 6} : ReadVersion(c, v)
  \/ AskUnknown(c)
  \/ \E id \in Drawn, pw \in Password, env \in Env : Create(c, id, pw, env)
  \/ \E text \in Typed, pw \in Password : AskJoin(c, text, pw)

-----------------------------------------------------------------------------
(* Steps beside the task.                                                  *)

\* d is another connection of c's account, on its way into the same room.
Reconnects(d, c) == d # c /\ phase[d] = "enter" /\ at[d] = at[c] /\ acct[d] = acct[c]

\* shutdown_err by a reconnecting client, or by the task spawned when c's own
\* queue is full (bound: once): ERR, if it gets the stream and the peer takes
\* it within a second, before, after or instead of the details.
ShutDown(c, d) ==
  /\ phase[c] \in {"details", "ended"}
  /\ d \notin shut[c]
  /\ (d = c /\ c \in Slow) \/ Reconnects(d, c)
  /\ \E answer \in {<<>>, <<"ERR">>} : Say(c, answer)
  /\ shut' = [shut EXCEPT ![c] = @ \cup {d}]
  /\ UNCHANGED <<phase, token, acct, version, join, at, roomVars, cache, configured, here>>

\* rooms.write().insert: a room that had the same id is lost to newcomers.
Insert(c) ==
  /\ c \in pending
  /\ rooms' = [rooms EXCEPT ![room[c].id] = c]
  /\ pending' = pending \ {c}
  /\ UNCHANGED <<ownVars, room, cache, configured, here, shut>>

Deserted(o) == \A c \in Conn : at[c] = o => phase[c] \in {"enter", "gone"}

\* room_mgr_loop removes a room that has expired, by an id that may by now
\* be another room's.
Remove(id) ==
  /\ \E o \in Conn \ pending : room[o] # None /\ room[o].id = id /\ Deserted(o)
  /\ rooms[id] # None
  /\ rooms' = [rooms EXCEPT ![id] = None]
  /\ UNCHANGED <<ownVars, room, pending, cache, configured, here, shut>>

\* Elsewhere a peer that has hung up is no news, or an EOF.
Hangup(c) ==
  /\ c \in here /\ phase[c] \in {"new", "ask"}
  /\ here' = here \ {c}
  /\ UNCHANGED <<ownVars, roomVars, cache, configured, shut>>

Next ==
  \/ \E c \in Conn :
       \/ ServerStep(c) \/ ClientStep(c) \/ Leave(c) \/ Insert(c) \/ Hangup(c)
       \/ \E d \in Conn : ShutDown(c, d)
  \/ \E id \in Drawn : Remove(id)

Spec == Init /\ [][Next]_hsVars

\* Every wait has a timeout, and what follows it does not wait for a peer.
FairSpec == Spec /\ \A c \in Conn : WF_hsVars(ServerStep(c))

-----------------------------------------------------------------------------
(* Properties.                                                             *)

TypeOK ==
  /\ phase \in [Conn -> Phases]
  /\ token \in [Conn -> Token \cup {None}]
  /\ acct \in [Conn -> Account \cup {None}]
  /\ version \in [Conn -> {0, 5, 6}]
  /\ join \in [Conn -> JoinDeets \cup {None}]
  /\ at \in [Conn -> Conn \cup {None}]
  /\ said \in [Conn -> Seq({"OK", "ERR", "room", "part"})]
  /\ room \in [Conn -> RoomDeets \cup {None}]
  /\ pending \subseteq Conn
  /\ rooms \in [Drawn -> Conn \cup {None}]
  /\ cache \in [Token -> Account \cup {None}]
  /\ configured \in BOOLEAN
  /\ here \subseteq Conn
  /\ shut \in [Conn -> SUBSET Conn]

\* Nobody has an account that the token service has not vouched for, however
\* many connections try a token, whatever was answered to the others and
\* whatever the cache has kept or lost (check_token).
OnlyVerified ==
  \A c \in Conn :
    acct[c] # None => token[c] \in Genuine /\ acct[c] = AccountOf[token[c]]

\* Whoever joins is in a room whose id is written as typed, though the map
\* has numbers and an id may be drawn again or removed meanwhile, with its
\* password unless it has none or the token was Xertrov's.
AdmittedAsAsked ==
  \A c \in Conn :
    at[c] # None /\ join[c] # None =>
      LET r == room[at[c]]
      IN  /\ r # None
          /\ RoomIdToStr(r.id) = join[c].text
          /\ \/ r.pw \in {NoPassword, join[c].pw}
             \/ token[c] \in Genuine /\ AccountOf[token[c]] = Xertrov

\* "v5 clients silently mask off the env bits and would open a Stadium map in
\* a non-Stadium room": none that joins is ever in one.
EnvGate ==
  \A c \in Conn :
    at[c] # None /\ join[c] # None /\ room[at[c]].env # 0 => version[c] = 6

\* OK_ for the token, OK_ for the room message, and then the details at most
\* once, among the errors of those who shut the player down meanwhile.
ToldInside(s) ==
  /\ Len(s) >= 2 /\ s[1] = "OK" /\ s[2] = "OK"
  /\ \A i \in 3..Len(s) : s[i] \in {"room", "ERR", "part"}
  /\ \A i, j \in 3..Len(s) : s[i] = "room" /\ s[j] = "room" => i = j

\* What a task that is over has answered: a client that is still connected and
\* was not let in has been told ERR, last and once, after OK_ for its token and
\* OK_ for its room message and no other; one that was let in has been told
\* the room, unless a reconnection of its account or the overflow of its queue
\* shut it down before: then ERR may come before the details or instead of
\* them, and they may be missing, but never come twice.
Answers ==
  \A c \in Conn :
    phase[c] = "gone" /\ c \in here =>
      IF at[c] # None
        THEN IF shut[c] = {} THEN said[c] = <<"OK", "OK", "room">> ELSE ToldInside(said[c])
        ELSE said[c] \in IF acct[c] = None THEN {<<"ERR">>}
                        ELSE IF join[c] # None THEN {<<"OK", "OK", "ERR">>}
                        ELSE {<<"OK", "ERR">>, <<"OK", "OK", "ERR">>}

\* No connection stays in its handshake: silent, slow or vanished clients and
\* a silent token service are given up ("weeks-old half-open conns").
Settles == \A c \in Conn : <>(phase[c] \in {"loop", "gone"})

=============================================================================
