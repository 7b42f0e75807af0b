---------------------------- MODULE MCProviders ----------------------------
(* Four machines that share no state, each behaviour one of them: the Send *)
(* of every chat provider, the sessions of Discord and the events of       *)
(* WhatsApp, and the part opener they wrap their downloads in.             *)
EXTENDS Sending

CONSTANTS
  Parts, Sizes, MaxInMemory, TempNames, NoFile, Sessions, DiscordMessages, Users, Listeners, ReactionListeners,
  Senders, Watch, Timers, DisappearingTimer, MaxEvents

VARIABLES part,
  source, once, consumed, resolved, openErr, buffer, tempPath, disk, lost,
  released, reads,
  session, listen, watcher, cancelled, closed, overlapped, handler, buffered,
  taken, use,
  init, paired, op, handlers, log, done, to, remembered, expiration, ended,
  told, settled, reply

Opener == INSTANCE BufferedOpener
Discord == INSTANCE DiscordProvider WITH Messages <- DiscordMessages
Whatsapp == INSTANCE WhatsappProvider

ASSUME ProvidersAssumption ==
  /\ Opener!OpenerAssumption
  /\ Discord!SessionsAreNumbers
  /\ Whatsapp!TimersAreNumbers /\ Whatsapp!CallsDiffer

openerVars ==
  <<source, once, consumed, resolved, openErr, buffer, tempPath, disk, lost, released, reads>>
discordVars ==
  <<session, listen, watcher, cancelled, closed, overlapped, handler, buffered, taken, use>>
whatsappVars ==
  <<init, paired, op, handlers, log, done, to, remembered, expiration, ended, told, settled, reply>>
allVars == <<part, vars, openerVars, discordVars, whatsappVars>>

MCSizes == 0 .. 4

MCTimers == {0, 1}

-----------------------------------------------------------------------------
(* Texts on both sides of the limits, of every shape up to seven           *)
(* characters and of more chunks beyond; up to two attachments.            *)

MCShaped(shape) == [i \in DOMAIN shape |-> IF shape[i] = 1 THEN i ELSE shape[i]]
MCLong ==
  {MCShaped(shape) : shape \in UNION {[1..n -> {1, 0, -1}] : n \in 1..7}}
    \cup {MCShaped([i \in 1..16 |-> IF i % k = 0 THEN c ELSE 1]) : k \in 2..7, c \in {0, -1}}
    \cup {MCShaped([i \in 1..16 |-> IF i % k \in {0, 1} THEN -1 ELSE 1]) : k \in 3..6}
MCShort == {<<>>, <<1, 2>>, <<1, 0, 3>>}
MCKinds == {"image", "audio", "other"}
MCFiles == {<<>>} \cup {<<<<k, 1>>>> : k \in MCKinds \cup {"video"}}
             \cup {<<<<k, 1>>, <<l, 2>>>> : k \in MCKinds, l \in MCKinds}

MCNothing == [main |-> FALSE, text |-> <<>>, files |-> <<>>]
MCPlatforms == {"whatsappcloud", "whatsapp", "discord", "rocket", "signal", "mail"}
MCMessages == [p \in MCPlatforms |->
  [main : {TRUE}, text : MCShort, files : MCFiles]
    \cup [main : {FALSE}, text : {<<>>}, files : MCFiles]
    \cup (IF p = "whatsappcloud" THEN [main : {TRUE}, text : MCLong, files : {<<>>}] ELSE {})]

\* WhatsApp carries a text, or one media with its caption
MCReceived == [p \in MCPlatforms |->
  IF p \in {"whatsappcloud", "whatsapp"}
  THEN [text : MCShort, caption : {<<>>}, files : {<<>>}]
         \cup [text : {<<>>}, caption : MCShort, files : {<<<<"image", 1>>>>}]
         \cup [text : {<<>>}, caption : {<<>>}, files : {<<<<"audio", 1>>>>}]
  ELSE [text : MCShort, caption : {<<>>}, files : MCFiles]
         \cup (IF p = "rocket"
               THEN [text : MCShort, caption : {<<>>}, files : {<<<<"quote", 1>>, <<"image", 2>>>>}]
               ELSE {})]

-----------------------------------------------------------------------------
\* the machines that do not run stay in one of their initial states
AllInit ==
  /\ part \in Parts
  /\ Opener!Init /\ (part # "opener" => source = 0 /\ once)
  /\ Discord!Init
  /\ Whatsapp!Init /\ (part # "whatsapp" => paired)
  /\ platform \in IF part = "sending" THEN MCPlatforms ELSE {"mail"}
  /\ Init /\ (part # "sending" => message = MCNothing /\ step = "begin" /\ ~inReplyTo)

AllNext ==
  /\ UNCHANGED part
  /\ \/ part = "opener" /\ Opener!Next /\ UNCHANGED <<vars, discordVars, whatsappVars>>
     \/ part = "discord" /\ Discord!Next /\ UNCHANGED <<vars, openerVars, whatsappVars>>
     \/ part = "whatsapp" /\ Whatsapp!Next /\ UNCHANGED <<vars, openerVars, discordVars>>
     \/ part = "sending" /\ Next /\ UNCHANGED <<openerVars, discordVars, whatsappVars>>

AllSpec == AllInit /\ [][AllNext]_allVars /\ Whatsapp!Fairness

\* opener.go: what every read yields, what stays on disk, what an error does
Replayable == Opener!Replayable
NoOrphanFile == Opener!NoOrphanFile
NeverNotReplayable == Opener!NeverNotReplayable
FailureIsFinal == Opener!FailureIsFinal

\* Listen of discord: the end of a context closes its own session
OwnSession == Discord!OwnSession

\* applyExpiration of whatsapp: a reply lives as the last event said
ReplyIsRecent == Whatsapp!ReplyIsRecent

\* its comment: a reply lives exactly as long as what it answers
ReplyMirrors == Whatsapp!ReplyMirrors

\* watchConnection of whatsapp: the application learns of a lost session
LossIsTold == Whatsapp!LossIsTold
=============================================================================
