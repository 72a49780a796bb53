------------------------------- MODULE Startup -------------------------------
(***************************************************************************)
(* What main does before its loop: the default configuration, the working  *)
(* configuration from one of three sources, and then the channels, the     *)
(* REST client and the two WebSockets, in this order, each only when the   *)
(* one before it was made.                                                 *)
(*                                                                         *)
(* The agent is asked once, over a channel that is polled a few times, a   *)
(* second apart.  A poll reads a few fragments; a document is handed to    *)
(* the handler when its last fragment is read.                             *)
(***************************************************************************)
EXTENDS Integers, Sequences, FiniteSets

CONSTANTS Documents,     \* configurations that a source may hold or send
          MaxPolls,      \* polls of the agent's channel, 5 in main
          FragmentLimit, \* fragments that one poll reads, 10 in Subscriber
          MaxDocuments   \* bound: documents the agent sends

\* What a configuration should hold.  Only "algo" lies outside of gate_config with
\* the lists; "keys" are api_key and secret_key, "channels" the Aeron channels.
Fields == {"algo", "markets", "assets", "depth", "keys", "channels"}
InGate == {"depth", "keys", "channels"}

\* A document: whether it parses and has a gate_config, the fields it has, its lists
\* and its length in fragments.
ASSUME StartupAssumption ==
  /\ MaxPolls \in Nat \ {0} /\ FragmentLimit \in Nat \ {0} /\ MaxDocuments \in Nat
  /\ \A d \in Documents :
       /\ d.parses \in BOOLEAN /\ d.gate \in BOOLEAN
       /\ d.given \subseteq Fields
       /\ d.gate \/ d.given \cap InGate = {}
       /\ d.markets \in Seq(STRING) /\ d.assets \in Seq(STRING)
       /\ "markets" \in d.given \/ d.markets = <<>>
       /\ "assets" \in d.given \/ d.assets = <<>>
       /\ d.size \in Nat \ {0}

AgentChannels == {"agent in", "agent out", "agent logs"}
CoreChannels  == {"balance", "orderbook", "logs", "order_status", "core"}
Parts         == AgentChannels \cup CoreChannels \cup {"rest", "private", "public"}

VARIABLES pc,         \* where main is, see Places
          source,     \* get_config_source
          config,     \* _work_config: the two lists and the fields that have been set
          received,   \* _config_was_received
          made,       \* the channels, clients and sockets that exist
          subscribed, \* number of markets subscribed on the public socket
          inbox,      \* the agent's channel: documents not yet read, each with the
                      \* position at which it ends
          published,  \* its positions, in fragments: of the agent,
          position,   \* and of the gateway
          polls,      \* polls of it so far, try_count
          budget,     \* fragments that the present poll may still read
          accepted,   \* history: the document that set received, or none
          refused,    \* history: documents whose lists were read before
          arrived     \* history: the documents that came, at which poll, with what read
                      \* before and where each ends

vars == <<pc, source, config, received, made, subscribed, inbox, published, position,
          polls, budget, accepted, refused, arrived>>

agentVars == <<inbox, published, position, polls, budget, refused, arrived>>

Final  == {"serving", "failed", "exited", "crashed", "gave up"}
Places == {"default", "load", "ask", "poll", "deliver", "sleep",
           "core", "rest", "private", "public"} \cup Final

TypeOK ==
  /\ pc \in Places
  /\ source \in {"none", "file", "api", "agent", "unknown"}
  /\ config.given \subseteq Fields
  /\ received \in BOOLEAN
  /\ made \subseteq Parts
  /\ subscribed \in 0..Len(config.markets)
  /\ Len(inbox) <= MaxDocuments
  /\ \A n \in 1..Len(inbox) : inbox[n].doc \in Documents /\ inbox[n].upto \in (position + 1)..published
  /\ polls \in 0..MaxPolls /\ budget \in 0..FragmentLimit
  /\ accepted \subseteq Documents /\ Cardinality(accepted) <= 1
  /\ refused \in 0..MaxDocuments
  /\ Len(arrived) <= MaxDocuments

Init ==
  /\ pc = "default" /\ source = "none"
  /\ config = [markets |-> <<>>, assets |-> <<>>, given |-> {}]
  /\ received = FALSE
  /\ made = {} /\ subscribed = 0
  /\ inbox = <<>> /\ published = 0 /\ position = 0 /\ polls = 0 /\ budget = 0
  /\ accepted = {} /\ refused = 0 /\ arrived = <<>>

-----------------------------------------------------------------------------
(* The source of the configuration *)

\* The default configuration: main answers its absence, but not a file that does not
\* parse.
parse_config ==
  /\ pc = "default"
  /\ \/ pc' \in {"failed", "crashed"} /\ UNCHANGED source
     \/ pc' = "load" /\ source' \in {"file", "api", "agent", "unknown"}
  /\ UNCHANGED <<config, received, made, subscribed, accepted>> /\ UNCHANGED agentVars

\* load_config_from_file, and get_config_from_api with load_config_from_json: what is
\* there is taken over, and anything that is missing is an error.
load_config(d) ==
  /\ pc = "load" /\ source \in {"file", "api"}
  /\ config' = IF d.parses THEN [markets |-> d.markets, assets |-> d.assets, given |-> d.given]
                           ELSE config
  /\ received' = (d.parses /\ d.given = Fields)
  /\ accepted' = IF received' THEN {d} ELSE {}
  /\ pc' = IF received' THEN "core" ELSE "failed"
  /\ UNCHANGED <<source, made, subscribed>> /\ UNCHANGED agentVars

\* There is no file, the source is unknown, or the parser has no buffer; the request
\* throws, which main does not answer.
no_config ==
  /\ pc = "load"
  /\ \/ source \in {"file", "api", "unknown"} /\ pc' = "failed"
     \/ source = "api" /\ pc' = "crashed"
  /\ UNCHANGED <<source, config, received, made, subscribed, accepted>> /\ UNCHANGED agentVars

-----------------------------------------------------------------------------
(* The agent *)

\* All three channels are tried for.
create_agent_channel(channels) ==
  /\ pc = "load" /\ source = "agent"
  /\ made' = made \cup channels
  /\ pc' = IF channels = AgentChannels THEN "ask" ELSE "failed"
  /\ UNCHANGED <<source, config, received, subscribed, accepted>> /\ UNCHANGED agentVars

\* The request, with a retry when the channel is full; nobody looks at the result.
send_config_request ==
  /\ pc = "ask"
  /\ pc' = "poll"
  /\ UNCHANGED <<source, config, received, made, subscribed, accepted>> /\ UNCHANGED agentVars

\* The agent sends a document, asked or not.  What comes while a poll reads counts as
\* coming after it.
agent_sends(d) ==
  /\ pc \in {"ask", "poll", "sleep"} /\ Len(arrived) < MaxDocuments
  /\ published' = published + d.size
  /\ inbox' = Append(inbox, [doc |-> d, upto |-> published'])
  /\ arrived' = Append(arrived, [doc |-> d, at |-> polls, read |-> position, upto |-> published'])
  /\ UNCHANGED <<pc, source, config, received, made, subscribed, position, polls, budget,
                 accepted, refused>>

pool_from_agent ==
  /\ pc = "poll"
  /\ polls' = polls + 1
  /\ budget' = FragmentLimit
  /\ pc' = "deliver"
  /\ UNCHANGED <<source, config, received, made, subscribed, inbox, published, position,
                 accepted, refused, arrived>>

\* Slip: a poll reads whatever there is.
Reads_Unlimited == pc = "deliver" /\ inbox # <<>>

Reads == pc = "deliver" /\ budget > 0 /\ inbox # <<>>

\* A fragment that is not the last of its document.
read_fragment ==
  /\ Reads /\ Head(inbox).upto > position + 1
  /\ position' = position + 1
  /\ budget' = budget - 1
  /\ UNCHANGED <<pc, source, config, received, made, subscribed, inbox, published, polls,
                 accepted, refused, arrived>>

\* Slip: a document is taken although there is one already.
config_from_agent_handler_again(allocated) ==
  /\ Reads /\ Head(inbox).upto = position + 1
  /\ LET d == Head(inbox).doc
         taken == allocated /\ d.parses
     IN /\ config' = IF ~taken THEN config
                     ELSE [markets |-> config.markets \o d.markets,
                           assets  |-> d.assets,
                           given   |-> (config.given \ {"assets"}) \cup (d.given \ {"algo"})]
        /\ received' = (received \/ ~allocated \/ (taken /\ d.gate))
        /\ accepted' = IF ~received /\ taken /\ d.gate THEN {d} ELSE accepted
        /\ refused' = IF taken /\ ~d.gate THEN refused + 1 ELSE refused
  /\ inbox' = Tail(inbox)
  /\ position' = position + 1
  /\ budget' = budget - 1
  /\ UNCHANGED <<pc, source, made, subscribed, published, polls, arrived>>

\* The last fragment: the document is handled unless one was received.  Its markets are
\* added, its assets replace the ones there are, a gate_config is enough to be received.
\* When the parser's buffer was not allocated nothing is read, but nothing describes an
\* error either, and that counts as received too.
config_from_agent_handler(allocated) ==
  /\ Reads /\ Head(inbox).upto = position + 1
  /\ LET d == Head(inbox).doc
         taken == ~received /\ allocated /\ d.parses
     IN /\ config' = IF ~taken THEN config
                     ELSE [markets |-> config.markets \o d.markets,
                           assets  |-> d.assets,
                           given   |-> (config.given \ {"assets"}) \cup (d.given \ {"algo"})]
        /\ received' = (received \/ ~allocated \/ (taken /\ d.gate))
        /\ accepted' = IF taken /\ d.gate THEN {d} ELSE accepted
        /\ refused' = IF taken /\ ~d.gate THEN refused + 1 ELSE refused
  /\ inbox' = Tail(inbox)
  /\ position' = position + 1
  /\ budget' = budget - 1
  /\ UNCHANGED <<pc, source, made, subscribed, published, polls, arrived>>

\* The poll returns, and has_config is looked at.
end_poll ==
  /\ pc = "deliver" /\ (budget = 0 \/ inbox = <<>>)
  /\ pc' = IF received THEN "core" ELSE "sleep"
  /\ UNCHANGED <<source, config, received, made, subscribed, accepted>> /\ UNCHANGED agentVars

\* Slips: one poll too few; a poll that found nothing to read is not counted.
sleep_short ==
  /\ pc = "sleep"
  /\ pc' = IF polls < MaxPolls - 1 THEN "poll" ELSE "gave up"
  /\ UNCHANGED <<source, config, received, made, subscribed, accepted>> /\ UNCHANGED agentVars

sleep_uncounted ==
  /\ pc = "sleep"
  /\ pc' = IF polls < MaxPolls THEN "poll" ELSE "gave up"
  /\ polls' = IF budget = FragmentLimit THEN polls - 1 ELSE polls
  /\ UNCHANGED <<source, config, received, made, subscribed, accepted, inbox, published,
                 position, budget, refused, arrived>>

\* A second later the next poll, or the end.
sleep ==
  /\ pc = "sleep"
  /\ pc' = IF polls < MaxPolls THEN "poll" ELSE "gave up"
  /\ UNCHANGED <<source, config, received, made, subscribed, accepted>> /\ UNCHANGED agentVars

-----------------------------------------------------------------------------
(* preparation_for_launch *)

\* Slip: only the last channel decides.
create_aeron_core_channels_last(channels) ==
  /\ pc = "core"
  /\ "channels" \in config.given \/ channels # CoreChannels
  /\ made' = made \cup channels
  /\ pc' = IF "core" \in channels THEN "rest" ELSE "failed"
  /\ UNCHANGED <<source, config, received, subscribed, accepted>> /\ UNCHANGED agentVars

\* All five channels are tried for; one whose name was not given cannot be made.
create_aeron_core_channels(channels) ==
  /\ pc = "core"
  /\ "channels" \in config.given \/ channels # CoreChannels
  /\ made' = made \cup channels
  /\ pc' = IF channels = CoreChannels THEN "rest" ELSE "failed"
  /\ UNCHANGED <<source, config, received, subscribed, accepted>> /\ UNCHANGED agentVars

create_private_REST ==
  /\ pc = "rest"
  /\ made' = made \cup {"rest"}
  /\ pc' = "private"
  /\ UNCHANGED <<source, config, received, subscribed, accepted>> /\ UNCHANGED agentVars

\* Slip: the result of the login is not looked at.
create_private_ws_unchecked ==
  /\ pc = "private"
  /\ made' \in {made, made \cup {"private"}}
  /\ pc' = IF "private" \in made' THEN "public" ELSE "failed"
  /\ UNCHANGED <<source, config, received, subscribed, accepted>> /\ UNCHANGED agentVars

\* The socket; the login, which is written when there are keys, and whose failure ends
\* the process with success; the subscription.
create_private_ws ==
  /\ pc = "private"
  /\ \/ pc' = "failed" /\ made' \in {made, made \cup {"private"}}
     \/ pc' = "exited" /\ made' = made \cup {"private"}
     \/ "keys" \in config.given /\ pc' = "public" /\ made' = made \cup {"private"}
  /\ UNCHANGED <<source, config, received, subscribed, accepted>> /\ UNCHANGED agentVars

\* The socket, and a subscription for each market in turn; the n-th may throw.
create_public_ws ==
  /\ pc = "public"
  /\ \/ pc' = "failed" /\ UNCHANGED <<made, subscribed>>
     \/ /\ made' = made \cup {"public"}
        /\ subscribed' \in 0..Len(config.markets)
        /\ pc' = IF subscribed' = Len(config.markets) THEN "serving" ELSE "failed"
  /\ UNCHANGED <<source, config, received, accepted>> /\ UNCHANGED agentVars

-----------------------------------------------------------------------------
Main ==
  \/ parse_config \/ no_config \/ \E d \in Documents : load_config(d)
  \/ \E channels \in SUBSET AgentChannels : create_agent_channel(channels)
  \/ send_config_request
  \/ pool_from_agent \/ read_fragment \/ end_poll \/ sleep
  \/ \E allocated \in BOOLEAN : config_from_agent_handler(allocated)
  \/ \E channels \in SUBSET CoreChannels : create_aeron_core_channels(channels)
  \/ create_private_REST \/ create_private_ws \/ create_public_ws

Next == Main \/ \E d \in Documents : agent_sends(d)

Spec == Init /\ [][Next]_vars

\* One thread, and no call of it waits for ever: requests, constructors and writes
\* return or throw, and the media driver answers.
FairSpec == Spec /\ WF_vars(Main)

-----------------------------------------------------------------------------
(* Properties *)

\* The main loop is entered only with every channel, client and socket made and every
\* market of the configuration subscribed: no failure on the way is passed over.
ServesOnlyWhole ==
  pc = "serving" =>
    /\ received
    /\ CoreChannels \cup {"rest", "private", "public"} \subseteq made
    /\ subscribed = Len(config.markets)

\* The agent's documents are not checked for what is missing in them; still the main
\* loop is never entered without the keys and the channels' names.
NeverServesWithoutKeys == pc = "serving" => {"keys", "channels"} \subseteq config.given

\* The lists the gateway goes on with are those of one document, however many the agent
\* sends; only the markets of documents without a gate_config, read before it, are added.
OneDocumentUsed ==
  \A d \in accepted :
    /\ config.assets = d.assets
    /\ refused = 0 => config.markets = d.markets
    /\ \A n \in 1..Len(d.markets) :
         config.markets[Len(config.markets) - Len(d.markets) + n] = d.markets[n]

\* The agent is given up only when no document with a gate_config came early enough:
\* the polls that were left when it came could not have read up to its end.
GivesUpOnlyUnanswered ==
  pc = "gave up" =>
    \A n \in 1..Len(arrived) :
      LET a == arrived[n]
      IN a.doc.parses /\ a.doc.gate => a.upto - a.read > FragmentLimit * (MaxPolls - a.at)

\* The start comes to an end: the main loop is entered, or the process ends.
StartEnds == <>(pc \in Final)
=============================================================================
