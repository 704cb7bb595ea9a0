------------------------------- MODULE Netplay -------------------------------
(***************************************************************************)
(* The netplay client, netplay.cpp: every client sends its controllers to  *)
(* a server and runs a frame on what the server sends back to all of them; *)
(* commands and save states take the same way.                             *)
(*                                                                         *)
(* The server is not in this repository.  What is assumed of it is what    *)
(* the client relies on: it answers in order, sends what concerns the      *)
(* machine to every client, YOUJOINED before anything else, and takes a    *)
(* client's data to be of the old controllers until CTRL_CHANGE_ACK.       *)
(*                                                                         *)
(* A machine is the sequence of what it was fed.  The ports hold a button  *)
(* each: a set of ports is those whose button is down.  Text, pings, game  *)
(* keys and cheats are left out; rumble and switches as well.              *)
(***************************************************************************)
EXTENDS Integers, Sequences, FiniteSets, SequencesExt, Functions, TLC

CONSTANTS Clients, Names,
          Ports,                \* 1 .. number of ports
          Device,               \* the device on each port, the same everywhere
          Buttons, Masks,       \* model bounds: what players press, controllers they ask for
          Saved,                \* a machine somebody has saved before
          Acts,                 \* model bound: which acts of the players go together
          MaxFed(_), MaxAhead, MaxDone, MaxLogins(_)
                                \* model bounds: of a machine, of frames sent, of what players do

\* There is a name for everyone; masks are of ports.
ASSUME NetplayAssumption ==
  /\ IsFiniteSet(Clients) /\ IsFiniteSet(Names) /\ Cardinality(Clients) <= Cardinality(Names)
  /\ Masks \subseteq SUBSET Ports

VARIABLES
  connected, MDFNnetplay, Joined,
  LocalPlayersMask, OurNick, PlayersList,
  receiving,            \* in the loop of Netplay_Update
  mach,
  up, down,             \* the two directions of the connection
  inGame, nickOf, roster,   \* the server: who plays, under which name, what they hold
  agreed,               \* the controllers by which it reads a client's data
  pressed,              \* what each client sent last
  acts, done, logins,   \* model bounds: what players do and have done
  strayed               \* history: no state has come since it joined or loaded its own

connection == <<connected, MDFNnetplay, receiving>>
seats == <<LocalPlayersMask, OurNick, PlayersList, Joined>>
server == <<inGame, nickOf, roster, agreed, pressed>>
bounds == <<acts, done, logins>>
vars == <<connection, seats, mach, up, down, server, bounds, strayed>>

Init ==
  /\ connected = [c \in Clients |-> FALSE] /\ MDFNnetplay = connected /\ receiving = connected
  /\ Joined = connected
  /\ LocalPlayersMask = [c \in Clients |-> {}] /\ PlayersList = [c \in Clients |-> <<>>]
  /\ OurNick = [c \in Clients |-> ""]
  /\ mach = [c \in Clients |-> <<c>>]
  /\ up = [c \in Clients |-> <<>>] /\ down = up
  /\ inGame = {} /\ nickOf = <<>> /\ roster = <<>>
  /\ agreed = [c \in Clients |-> {}] /\ pressed = agreed
  /\ acts \in Acts /\ done = 0 /\ logins = 0
  /\ strayed = [c \in Clients |-> TRUE]

-----------------------------------------------------------------------------
(* Sending.  lpm is what the data before a command is laid out by. *)

SendAs(c, cmd, arg, lpm) ==
  up' = [up EXCEPT ![c] = Append(@, [cmd |-> cmd, arg |-> arg, lpm |-> lpm])]
SendCommand(c, cmd, arg) == SendAs(c, cmd, arg, LocalPlayersMask[c])

\* The port of this machine whose device plays each port of the mask: the first
\* that is like it and not yet given away.
PortVtoLVMap(mask) ==
  LET map[x \in 0 .. Cardinality(Ports)] ==
        IF x = 0 THEN <<>>
        ELSE IF x \notin mask THEN map[x - 1]
        ELSE LET n == CHOOSE n \in 1 .. x :
                        /\ Device[n] = Device[x] /\ n \notin Range(map[x - 1])
                        /\ \A k \in 1 .. (n - 1) : Device[k] = Device[x] => k \in Range(map[x - 1])
             IN  map[x - 1] @@ (x :> n)
  IN  map[Cardinality(Ports)]

Outgoing(mask, buttons) == {x \in mask : PortVtoLVMap(mask)[x] \in buttons}

MDFNI_NetplayDisconnect(c) ==
  /\ connected' = [connected EXCEPT ![c] = FALSE]
  /\ MDFNnetplay' = [MDFNnetplay EXCEPT ![c] = FALSE]
  /\ receiving' = [receiving EXCEPT ![c] = FALSE]
  /\ Joined' = [Joined EXCEPT ![c] = FALSE]
  /\ OurNick' = [OurNick EXCEPT ![c] = ""]
  /\ PlayersList' = [PlayersList EXCEPT ![c] = <<>>]
  /\ down' = [down EXCEPT ![c] = <<>>]
  /\ UNCHANGED LocalPlayersMask

-----------------------------------------------------------------------------
(* A client between frames *)

\* A new connection finds the old one gone.
MDFNI_NetplayConnect(c) ==
  /\ ~ connected[c] /\ up[c] = <<>> /\ c \notin inGame /\ logins < MaxLogins(acts)
  /\ connected' = [connected EXCEPT ![c] = TRUE] /\ logins' = logins + 1
  /\ UNCHANGED <<MDFNnetplay, receiving, seats, mach, up, down, server, acts, done, strayed>>

Playing(c) == MDFNnetplay[c] /\ ~ receiving[c]
Act(kind) == kind \in acts /\ done < MaxDone /\ done' = done + 1 /\ UNCHANGED acts

\* Mutant: the machine is reset at once as well.
MDFN_QSimpleCommandAtOnce(c) ==
  /\ Playing(c) /\ Act("command")
  /\ SendCommand(c, "RESET", 0) /\ mach' = [mach EXCEPT ![c] = Append(@, <<"RESET", 0>>)]
  /\ UNCHANGED <<connection, seats, down, server, logins, strayed>>

\* Reset, power, media and the like are only sent.
MDFN_QSimpleCommand(c) ==
  /\ Playing(c) /\ Act("command")
  /\ SendCommand(c, "RESET", 0)
  /\ UNCHANGED <<connection, seats, mach, down, server, logins, strayed>>

\* Loading a state fails when some of the machine has been replaced.
LoadFails(c) ==
  /\ Len(mach[c]) < MaxFed(acts)
  /\ mach' = [mach EXCEPT ![c] = Append(@, <<"LOADSTATE", 0>>)]

\* A state is loaded at once, and sent unless that fails.
MDFNI_LoadState(c) ==
  /\ Playing(c) /\ Act("state")
  /\ \/ mach' = [mach EXCEPT ![c] = Saved] /\ SendCommand(c, "LOADSTATE", Saved)
     \/ LoadFails(c) /\ UNCHANGED up
  /\ strayed' = [strayed EXCEPT ![c] = TRUE]
  /\ UNCHANGED <<connection, seats, down, server, logins>>

MDFNI_NetplayLine(c) ==
  /\ Playing(c) /\ Act("line")
  /\ \/ \E cmd \in {"TAKE", "DROP", "DUPE"}, mask \in Masks : SendCommand(c, cmd, mask)
     \/ \E a, b \in Ports : SendCommand(c, "SWAP", <<a, b>>)
     \/ \E n \in Names : Joined[c] /\ SendCommand(c, "SETNICK", n)
  /\ UNCHANGED <<connection, seats, mach, down, server, logins, strayed>>

CC_quit(c) ==
  /\ connected[c] /\ ~ receiving[c] /\ Act("leave")
  /\ IF MDFNnetplay[c] THEN SendCommand(c, "QUIT", 0) ELSE UNCHANGED up
  /\ MDFNI_NetplayDisconnect(c)
  /\ UNCHANGED <<mach, server, logins, strayed>>

\* How the server learns of it.
Closed == [cmd |-> "closed", arg |-> 0, lpm |-> {}]

\* Sending or receiving fails, anywhere, the load of a state that came included.
\* The server may not get all that was sent.
NetError(c) ==
  /\ connected[c] /\ Act("leave")
  /\ MDFNI_NetplayDisconnect(c)
  /\ \E n \in 0 .. Len(up[c]) :
       up' = [up EXCEPT ![c] = IF c \in inGame \/ n > 0
                               THEN Append(SubSeq(@, 1, n), Closed) ELSE <<>>]
  /\ \/ UNCHANGED mach
     \/ receiving[c] /\ down[c] # <<>> /\ Head(down[c]).cmd = "LOADSTATE" /\ LoadFails(c)
  /\ UNCHANGED <<server, logins, strayed>>

-----------------------------------------------------------------------------
(* Netplay_Update: a frame *)

NetplayStart(c) ==
  /\ connected[c] /\ ~ MDFNnetplay[c]
  /\ MDFNnetplay' = [MDFNnetplay EXCEPT ![c] = TRUE]
  /\ receiving' = [receiving EXCEPT ![c] = TRUE]
  /\ Joined' = [Joined EXCEPT ![c] = FALSE]
  /\ LocalPlayersMask' = [LocalPlayersMask EXCEPT ![c] = {}]
  /\ PlayersList' = [PlayersList EXCEPT ![c] = <<>>]
  /\ SendAs(c, "LOGIN", 0, {})
  /\ UNCHANGED <<connected, OurNick, mach, down, server, bounds, strayed>>

\* Buttons go out as the controllers are now; a change may be on its way.
SendInput(c) ==
  /\ Playing(c)
  /\ receiving' = [receiving EXCEPT ![c] = TRUE]
  /\ IF Joined[c] THEN \E buttons \in Buttons :
                         SendCommand(c, "", Outgoing(LocalPlayersMask[c], buttons))
     ELSE UNCHANGED up
  /\ UNCHANGED <<connected, MDFNnetplay, seats, mach, down, server, bounds, strayed>>

\* What is done to a machine by what the server sends.
Fed(m, msg) == CASE msg.cmd \in {"", "RESET"} -> Append(m, <<msg.cmd, msg.arg>>)
                 [] msg.cmd = "LOADSTATE" -> msg.arg
                 [] OTHER -> m

\* Swaps two bits of a mask, which may be the same.
SwappedLosing(mask, a, b) ==   \* mutant
  LET cleared == IF b \in mask THEN mask \cup {a} ELSE mask \ {a}
  IN  IF a \in cleared THEN cleared \cup {b} ELSE cleared \ {b}
Swapped(mask, a, b) ==
  {p \in Ports : CASE p = a -> b \in mask [] p = b -> a \in mask [] OTHER -> p \in mask}

\* What a map is after f[x] = y, whether x was in it or not.
Put(f, x, y) == [n \in DOMAIN f \cup {x} |-> IF n = x THEN y ELSE f[n]]

\* What is done to the list of players.
Listed(list, msg) ==
  CASE msg.cmd \in {"YOUJOINED", "PLAYERJOINED"} -> Put(list, msg.nick, msg.arg)
    [] msg.cmd = "PLAYERLEFT" -> Restrict(list, DOMAIN list \ {msg.nick})
    [] msg.cmd = "NOTIF" /\ msg.nick \in DOMAIN list -> [list EXCEPT ![msg.nick] = msg.arg]
    [] msg.cmd = "SWAP_NOTIF" -> [n \in DOMAIN list |-> Swapped(list[n], msg.arg[1], msg.arg[2])]
    [] msg.cmd = "NICKCHANGED" /\ msg.nick \in DOMAIN list /\ msg.arg \notin DOMAIN list ->
         Restrict(Put(list, msg.arg, list[msg.nick]), (DOMAIN list \cup {msg.arg}) \ {msg.nick})
    [] OTHER -> list

\* SetLPM: which controllers are its own.
Seated(mask, msg) == IF msg.cmd \in {"YOUJOINED", "CTRL_CHANGE"} THEN msg.arg ELSE mask

Named(nick, msg) == CASE msg.cmd = "YOUJOINED" -> msg.nick
                      [] msg.cmd = "NICKCHANGED" /\ msg.nick = nick -> msg.arg
                      [] OTHER -> nick

\* Mutant: the acknowledgement is sent once the new controllers are set.
AnswerLate(c, msg) ==
  CASE msg.cmd = "REQUEST_STATE" -> SendCommand(c, "LOADSTATE", mach[c])
    [] msg.cmd = "CTRL_CHANGE" -> SendAs(c, "CTRL_CHANGE_ACK", msg.arg, msg.arg)
    [] msg.cmd = "YOUJOINED" -> SendAs(c, "SETFPS", 0, msg.arg)
    [] OTHER -> UNCHANGED up

\* A change of controllers is acknowledged before it is made, joining after it.
Answer(c, msg) ==
  CASE msg.cmd = "REQUEST_STATE" -> SendCommand(c, "LOADSTATE", mach[c])
    [] msg.cmd = "CTRL_CHANGE" -> SendCommand(c, "CTRL_CHANGE_ACK", msg.arg)
    [] msg.cmd = "YOUJOINED" -> SendAs(c, "SETFPS", 0, msg.arg)
    [] OTHER -> UNCHANGED up

\* ProcessCommand; or the inputs of all, with which the frame is run.
Receive(c) ==
  /\ receiving[c] /\ down[c] # <<>>
  /\ LET msg == Head(down[c]) IN
       /\ msg.cmd \in {"", "RESET"} => Len(mach[c]) < MaxFed(acts)
       /\ down' = [down EXCEPT ![c] = Tail(@)]
       /\ mach' = [mach EXCEPT ![c] = Fed(@, msg)]
       /\ PlayersList' = [PlayersList EXCEPT ![c] = Listed(@, msg)]
       /\ OurNick' = [OurNick EXCEPT ![c] = Named(@, msg)]
       /\ LocalPlayersMask' = [LocalPlayersMask EXCEPT ![c] = Seated(@, msg)]
       /\ Joined' = [Joined EXCEPT ![c] = @ \/ msg.cmd = "YOUJOINED"]
       /\ Answer(c, msg)
       /\ receiving' = [receiving EXCEPT ![c] = msg.cmd # ""]
       /\ strayed' = [strayed EXCEPT ![c] = @ /\ msg.cmd # "LOADSTATE"]
  /\ UNCHANGED <<connected, MDFNnetplay, server, bounds>>

Client(c) == \/ MDFNI_NetplayConnect(c) \/ MDFN_QSimpleCommand(c) \/ MDFNI_LoadState(c)
             \/ MDFNI_NetplayLine(c) \/ CC_quit(c) \/ NetError(c)
             \/ NetplayStart(c) \/ SendInput(c) \/ Receive(c)

-----------------------------------------------------------------------------
(* The server *)

clients == <<connection, seats, mach, bounds>>
Msg(cmd, arg, nick) == [cmd |-> cmd, arg |-> arg, nick |-> nick]
Hears(c, msgs) == IF connected[c] THEN down[c] \o msgs ELSE <<>>

\* Everyone is sent msgs, and to whom it concerns their new controllers.
Tell(msgs) == down' = [c \in Clients |-> IF c \in inGame THEN Hears(c, msgs) ELSE down[c]]
Held == [c \in inGame |-> roster[nickOf[c]]]
TellHeld(held, msgs) ==
  /\ roster' = [n \in DOMAIN roster |-> held[CHOOSE c \in inGame : nickOf[c] = n]]
  /\ down' = [c \in Clients |->
       IF c \notin inGame THEN down[c]
       ELSE Hears(c, (IF held[c] = Held[c] THEN <<>> ELSE <<Msg("CTRL_CHANGE", held[c], "")>>) \o msgs)]

Take(c) == up' = [up EXCEPT ![c] = Tail(@)]

Login(c) ==
  /\ up[c] # <<>> /\ Head(up[c]).cmd = "LOGIN" /\ Take(c)
  /\ LET mask == {p \in Ports \ UNION Range(roster) : \A q \in Ports \ UNION Range(roster) : p <= q}
           nick == CHOOSE n \in Names : n \notin DOMAIN roster
           others == SetToSeq({Msg("PLAYERJOINED", roster[n], n) : n \in DOMAIN roster})
       IN  /\ inGame' = inGame \cup {c}
           /\ nickOf' = Put(nickOf, c, nick) /\ roster' = Put(roster, nick, mask)
           /\ agreed' = [agreed EXCEPT ![c] = mask] /\ pressed' = [pressed EXCEPT ![c] = {}]
           /\ \E asked \in IF inGame = {} THEN {c} ELSE inGame :
                down' = [d \in Clients |->
                  CASE d = c -> Hears(c, <<Msg("YOUJOINED", mask, nick)>> \o others)
                    [] d \in inGame -> Hears(d, <<Msg("PLAYERJOINED", mask, nick)>> \o
                                              (IF d = asked THEN <<Msg("REQUEST_STATE", 0, "")>> ELSE <<>>))
                    [] OTHER -> down[d]]
           /\ strayed' = [strayed EXCEPT ![c] = inGame # {}]
  /\ UNCHANGED clients

Input(c, msg) ==
  /\ msg.cmd = ""
  /\ pressed' = [pressed EXCEPT ![c] = msg.arg]
  /\ UNCHANGED <<down, inGame, nickOf, roster, agreed>>

Relay(c, msg) ==
  /\ msg.cmd \in {"RESET", "LOADSTATE"} /\ Tell(<<Msg(msg.cmd, msg.arg, "")>>)
  /\ UNCHANGED server

Acknowledged(c, msg) ==
  /\ msg.cmd = "CTRL_CHANGE_ACK" /\ agreed' = [agreed EXCEPT ![c] = msg.arg]
  /\ pressed' = [pressed EXCEPT ![c] = {}]
  /\ UNCHANGED <<down, inGame, nickOf, roster>>

Reseat(c, msg) ==
  /\ msg.cmd \in {"TAKE", "DROP", "DUPE"}
  /\ LET held == [d \in inGame |->
           IF d = c THEN IF msg.cmd = "DROP" THEN Held[c] \ msg.arg ELSE Held[c] \cup msg.arg
           ELSE IF msg.cmd = "TAKE" THEN Held[d] \ msg.arg ELSE Held[d]]
     IN  TellHeld(held, SetToSeq({Msg("NOTIF", held[d], nickOf[d]) : d \in {e \in inGame : held[e] # Held[e]}}))
  /\ UNCHANGED <<inGame, nickOf, agreed, pressed>>

Swap(c, msg) ==
  /\ msg.cmd = "SWAP"
  /\ LET a == msg.arg[1]  b == msg.arg[2]
         other(p) == IF p = a THEN b ELSE IF p = b THEN a ELSE p
     IN  TellHeld([d \in inGame |-> {other(p) : p \in Held[d]}], <<Msg("SWAP_NOTIF", msg.arg, "")>>)
  /\ UNCHANGED <<inGame, nickOf, agreed, pressed>>

Rename(c, msg) ==
  /\ msg.cmd = "SETNICK"
  /\ IF msg.arg \in DOMAIN roster THEN UNCHANGED <<down, nickOf, roster>>
     ELSE /\ nickOf' = [nickOf EXCEPT ![c] = msg.arg]
          /\ roster' = [n \in (DOMAIN roster \ {nickOf[c]}) \cup {msg.arg} |->
                          IF n = msg.arg THEN roster[nickOf[c]] ELSE roster[n]]
          /\ Tell(<<Msg("NICKCHANGED", msg.arg, nickOf[c])>>)
  /\ UNCHANGED <<inGame, agreed, pressed>>

Leave(c, msg) ==
  /\ msg.cmd \in {"QUIT", "closed"}
  /\ inGame' = inGame \ {c}
  /\ nickOf' = Restrict(nickOf, inGame')
  /\ roster' = Restrict(roster, DOMAIN roster \ {nickOf[c]})
  /\ agreed' = [agreed EXCEPT ![c] = {}] /\ pressed' = [pressed EXCEPT ![c] = {}]
  /\ Tell(<<Msg("PLAYERLEFT", roster[nickOf[c]], nickOf[c])>>)

Serve(c) ==
  /\ c \in inGame /\ up[c] # <<>> /\ Take(c)
  /\ LET msg == Head(up[c]) IN
       \/ Input(c, msg) \/ Relay(c, msg) \/ Acknowledged(c, msg) \/ Reseat(c, msg) \/ Swap(c, msg)
       \/ Rename(c, msg) \/ Leave(c, msg)
       \/ (msg.cmd = "SETFPS" /\ UNCHANGED <<down, server>>)
  /\ UNCHANGED <<clients, strayed>>

\* At its own pace: everyone's buttons to everyone.
Frame ==
  /\ inGame # {} /\ \A c \in inGame : Len(SelectSeq(down[c], LAMBDA msg : msg.cmd = "")) < MaxAhead
  /\ Tell(<<Msg("", UNION {pressed[c] : c \in inGame}, "")>>)
  /\ UNCHANGED <<clients, server, up, strayed>>

Next == (\E c \in Clients : Client(c) \/ Login(c) \/ Serve(c)) \/ Frame

Spec == Init /\ [][Next]_vars

-----------------------------------------------------------------------------
(* Correctness *)

\* Once all that the server has sent is carried out, any two clients have the same
\* machine: whatever was sent by whom meanwhile, and however far each has got.
\* (Not: one that has joined, or has loaded a state of its own, until a state comes.)
InStep(c) == c \in inGame /\ connected[c]
             /\ (~ strayed[c] \/ \E msg \in Range(down[c]) : msg.cmd = "LOADSTATE")
MachinesAgree ==
  \A c, d \in Clients : InStep(c) /\ InStep(d) =>
    FoldLeft(Fed, mach[c], down[c]) = FoldLeft(Fed, mach[d], down[d])

\* "Sent using old local data length, everything after this should be new data size."
\* (netplay.h:56) The server reads all that a client has sent by the controllers it
\* was laid out by.
ControllersAgree ==
  \A c \in inGame : \A i \in DOMAIN up[c] :
    up[c][i] # Closed =>
      up[c][i].lpm = FoldLeft(LAMBDA held, msg : IF msg.cmd = "CTRL_CHANGE_ACK" THEN msg.arg ELSE held,
                              agreed[c], SubSeq(up[c], 1, i - 1))

\* "[BUG] Players list state out of sync." (netplay.cpp:800) Once all that the server
\* has sent is carried out, every client knows who plays, which of them it is, and
\* has the controllers the others think it has.
PlayersInSync ==
  \A c \in inGame : connected[c] =>
    /\ FoldLeft(Listed, PlayersList[c], down[c]) = roster
    /\ FoldLeft(Named, OurNick[c], down[c]) = nickOf[c]
    /\ FoldLeft(Seated, LocalPlayersMask[c], down[c]) = roster[nickOf[c]]
=============================================================================
