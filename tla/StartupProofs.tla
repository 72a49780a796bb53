---------------------------- MODULE StartupProofs ----------------------------
(***************************************************************************)
(* Proofs about Startup, for any documents, any number of polls, any limit *)
(* of fragments and any number of documents sent.                          *)
(***************************************************************************)
EXTENDS Startup, FiniteSetTheorems, SequenceFacts

\* Where main is before preparation_for_launch, and where it asks the agent.
Asking  == {"ask", "poll", "deliver", "sleep"}
Before  == {"default", "load"} \cup Asking
Started == {"core", "rest", "private", "public", "serving"}

\* What every state has, beyond its type: the agent's documents that are handled or wait
\* are among those that came; the polls are counted before they are made.
InboxInv ==
  /\ inbox \in Seq([doc : Documents, upto : Nat])
  /\ position \in Nat /\ published \in Nat
  /\ IsSequence(arrived) /\ Len(arrived) <= MaxDocuments
  /\ refused \in Nat /\ refused + Len(inbox) <= Len(arrived)

\* The documents that wait end one after the other, after what has been read, and what
\* has not been read of a document that came is there.
StreamInv ==
  /\ position <= published
  /\ \A n \in 1..Len(inbox) : inbox[n].upto > position /\ inbox[n].upto <= published
  /\ \A n, k \in 1..Len(inbox) : n < k => inbox[n].upto < inbox[k].upto
  /\ \A n \in 1..Len(arrived) :
       /\ arrived[n].upto \in Nat /\ arrived[n].read \in Nat /\ arrived[n].at \in Nat
       /\ arrived[n].upto > position =>
            \E k \in 1..Len(inbox) : inbox[k].doc = arrived[n].doc /\ inbox[k].upto = arrived[n].upto

\* A document a is read by and by: as long as its end has not been, every poll since it
\* came has used up its limit, but for what the present one has left.  And once it has
\* been read to its end it was enough, if it has a gate_config.
Spare      == IF pc = "deliver" THEN budget ELSE 0
Awaited(a) == a.upto > position => (position - a.read) + Spare >= FragmentLimit * (polls - a.at)
Taken(a)   == a.doc.parses /\ a.doc.gate /\ a.upto <= position => received

\* Too late for the polls that were left when it came.
Late(a) == a.upto - a.read > FragmentLimit * (MaxPolls - a.at)

Answering == \A n \in 1..Len(arrived) : Awaited(arrived[n]) /\ Taken(arrived[n])

AnswerInv ==
  /\ StreamInv /\ Answering
  /\ pc \in {"sleep", "gave up"} => ~received
  /\ pc = "gave up" => polls = MaxPolls

PollsInv ==
  /\ polls \in 0..MaxPolls /\ budget \in 0..FragmentLimit
  /\ pc \in {"default", "load", "ask"} => polls = 0
  /\ pc = "poll" => polls < MaxPolls

ConfigInv ==
  /\ pc \in Places
  /\ source \in {"none", "file", "api", "agent", "unknown"}
  /\ config \in [markets : Seq(STRING), assets : Seq(STRING), given : SUBSET Fields]
  /\ received \in BOOLEAN
  /\ made \subseteq Parts
  /\ subscribed \in 0..Len(config.markets)
  /\ pc \in Before \cup {"core", "rest", "private", "public"} => subscribed = 0
  /\ \/ accepted = {}
     \/ received /\ \E d \in Documents : accepted = {d}

\* What has been made by the time main gets to a place.
WholeInv ==
  /\ pc \in Started => received
  /\ pc \in Started \ {"core"} => CoreChannels \subseteq made /\ "channels" \in config.given
  /\ pc \in {"private", "public", "serving"} => "rest" \in made
  /\ pc \in {"public", "serving"} => "private" \in made /\ "keys" \in config.given
  /\ pc = "serving" => "public" \in made /\ subscribed = Len(config.markets)

\* The lists before and after a document is accepted.
ListsInv ==
  /\ pc \in Before /\ ~received /\ refused = 0 => config.markets = <<>>
  /\ pc \in {"default", "load", "ask"} => ~received
  /\ OneDocumentUsed

\* None of the properties is inductive: serving whole, and with keys, rests on what has
\* been made or checked at every earlier place, and the lists of an accepted document on
\* what was in them before it.
IInv == InboxInv /\ PollsInv /\ ConfigInv /\ WholeInv /\ ListsInv

-----------------------------------------------------------------------------
(* Sequences *)

\* What config_from_agent_handler makes of the markets: those of the document come last.
LEMMA SuffixOfConcat ==
  ASSUME NEW s \in Seq(STRING), NEW t \in Seq(STRING)
  PROVE  /\ s \o t \in Seq(STRING)
         /\ \A n \in 1..Len(t) : (s \o t)[Len(s \o t) - Len(t) + n] = t[n]
         /\ s = <<>> => s \o t = t
<1>1. Len(s \o t) = Len(s) + Len(t) /\ s \o t \in Seq(STRING)
  OBVIOUS
<1>2. ASSUME NEW n \in 1..Len(t)
      PROVE  (s \o t)[Len(s \o t) - Len(t) + n] = t[n]
  <2>1. Len(s \o t) - Len(t) + n = Len(s) + n
    BY <1>1
  <2>2. (s \o t)[Len(s) + n] = t[n]
    OBVIOUS
  <2> QED
    BY <2>1, <2>2
<1>3. s = <<>> => s \o t = t
  OBVIOUS
<1> QED
  BY <1>1, <1>2, <1>3

-----------------------------------------------------------------------------
(* The invariant *)

LEMMA InvInit == Init => IInv
<1> SUFFICES ASSUME Init
             PROVE  IInv
  OBVIOUS
<1>1. InboxInv
  BY StartupAssumption DEF Init, InboxInv, IsSequence
<1>2. PollsInv
  BY StartupAssumption DEF Init, PollsInv
<1>3. ConfigInv
  <2>1. <<>> \in Seq(STRING) /\ 0 \in 0..Len(<<>>)
    OBVIOUS
  <2>2. pc \in Places /\ source = "none" /\ received = FALSE /\ accepted = {}
    BY DEF Init, Places
  <2>3. config \in [markets : Seq(STRING), assets : Seq(STRING), given : SUBSET Fields]
    <3>1. {} \in SUBSET Fields
      OBVIOUS
    <3> QED
      BY <2>1, <3>1, Zenon DEF Init
  <2>4. subscribed = 0 /\ subscribed \in 0..Len(config.markets) /\ made = {}
    BY <2>1 DEF Init
  <2> QED
    BY <2>2, <2>3, <2>4 DEF ConfigInv
<1>4. WholeInv
  BY DEF Init, WholeInv, Started
<1>5. ListsInv
  BY DEF Init, ListsInv, OneDocumentUsed
<1> QED
  BY <1>1, <1>2, <1>3, <1>4, <1>5 DEF IInv

\* Steps that do not touch the agent's side keep what is said of it.
LEMMA InboxKept == InboxInv /\ UNCHANGED agentVars => InboxInv'
  BY DEF InboxInv, agentVars

\* One lemma per action: it preserves each part of the invariant.
LEMMA Inv_parse_config ==
  ASSUME IInv, parse_config
  PROVE  IInv'
<1>1. InboxInv'
  BY InboxKept DEF IInv, parse_config
<1>2. PollsInv'
  BY StartupAssumption DEF IInv, PollsInv, parse_config, agentVars
<1>3. ConfigInv'
  BY StartupAssumption DEF IInv, ConfigInv, parse_config, Places, Final, Before, Asking, Started, Parts, AgentChannels, CoreChannels
<1>4. WholeInv'
  BY DEF IInv, WholeInv, ConfigInv, parse_config, Places, Final, Before, Asking, Started, Parts, AgentChannels, CoreChannels
<1>5. ListsInv'
  BY DEF IInv, ListsInv, OneDocumentUsed, ConfigInv, parse_config, agentVars, Places, Final, Before, Asking, Started, Parts, AgentChannels, CoreChannels
<1> QED
  BY <1>1, <1>2, <1>3, <1>4, <1>5 DEF IInv

LEMMA Inv_load_config ==
  ASSUME IInv, NEW d \in Documents, load_config(d)
  PROVE  IInv'
<1>0. /\ d.markets \in Seq(STRING) /\ d.assets \in Seq(STRING) /\ d.given \in SUBSET Fields
      /\ d.parses \in BOOLEAN
  BY StartupAssumption
<1>1. InboxInv'
  BY InboxKept DEF IInv, load_config
<1>2. PollsInv'
  BY DEF IInv, PollsInv, load_config, agentVars
<1>3. config' \in [markets : Seq(STRING), assets : Seq(STRING), given : SUBSET Fields]
  <2> DEFINE new == [markets |-> d.markets, assets |-> d.assets, given |-> d.given]
  <2>1. new \in [markets : Seq(STRING), assets : Seq(STRING), given : SUBSET Fields]
    BY <1>0
  <2>2. config' = new \/ config' = config
    BY Zenon DEF load_config
  <2>3. config \in [markets : Seq(STRING), assets : Seq(STRING), given : SUBSET Fields]
    BY DEF IInv, ConfigInv
  <2> QED
    BY <2>1, <2>2, <2>3
<1>4. subscribed' = 0 /\ 0 \in 0..Len(config'.markets)
  BY <1>3 DEF load_config, IInv, ConfigInv, Before
<1>5. /\ received' \in BOOLEAN
      /\ \/ ~received' /\ accepted' = {}
         \/ received' /\ accepted' = {d}
  BY Zenon DEF load_config
<1>6. ConfigInv'
  BY <1>3, <1>4, <1>5 DEF load_config, IInv, ConfigInv, Places, Final, Before
<1>7. WholeInv'
  BY DEF IInv, WholeInv, ConfigInv, load_config, Started
<1>8. received' => config'.markets = d.markets /\ config'.assets = d.assets
  BY <1>0 DEF load_config
<1>9. OneDocumentUsed'
  <2>1. CASE ~received'
    BY <1>5, <2>1 DEF OneDocumentUsed
  <2>2. CASE received'
    <3>1. accepted' = {d} /\ config'.markets = d.markets /\ config'.assets = d.assets
      BY <1>5, <1>8, <2>2
    <3>2. \A n \in 1..Len(d.markets) : Len(d.markets) - Len(d.markets) + n = n
      BY <1>0
    <3> QED
      BY <3>1, <3>2 DEF OneDocumentUsed
  <2> QED
    BY <2>1, <2>2
<1>10. ListsInv'
  BY <1>9 DEF IInv, ListsInv, load_config, Before, Asking
<1> QED
  BY <1>1, <1>2, <1>6, <1>7, <1>10 DEF IInv

LEMMA Inv_no_config ==
  ASSUME IInv, no_config
  PROVE  IInv'
<1>1. InboxInv'
  BY InboxKept DEF IInv, no_config
<1>2. PollsInv'
  BY StartupAssumption DEF IInv, PollsInv, no_config, agentVars
<1>3. ConfigInv'
  BY StartupAssumption DEF IInv, ConfigInv, no_config, Places, Final, Before, Asking, Started, Parts, AgentChannels, CoreChannels
<1>4. WholeInv'
  BY DEF IInv, WholeInv, ConfigInv, no_config, Places, Final, Before, Asking, Started, Parts, AgentChannels, CoreChannels
<1>5. ListsInv'
  BY DEF IInv, ListsInv, OneDocumentUsed, ConfigInv, no_config, agentVars, Places, Final, Before, Asking, Started, Parts, AgentChannels, CoreChannels
<1> QED
  BY <1>1, <1>2, <1>3, <1>4, <1>5 DEF IInv

LEMMA Inv_create_agent_channel ==
  ASSUME IInv, NEW channels \in SUBSET AgentChannels, create_agent_channel(channels)
  PROVE  IInv'
<1>1. InboxInv'
  BY InboxKept DEF IInv, create_agent_channel
<1>2. PollsInv'
  BY StartupAssumption DEF IInv, PollsInv, create_agent_channel, agentVars
<1>3. ConfigInv'
  BY StartupAssumption DEF IInv, ConfigInv, create_agent_channel, Places, Final, Before, Asking, Started, Parts, AgentChannels, CoreChannels
<1>4. WholeInv'
  BY DEF IInv, WholeInv, ConfigInv, create_agent_channel, Places, Final, Before, Asking, Started, Parts, AgentChannels, CoreChannels
<1>5. ListsInv'
  BY DEF IInv, ListsInv, OneDocumentUsed, ConfigInv, create_agent_channel, agentVars, Places, Final, Before, Asking, Started, Parts, AgentChannels, CoreChannels
<1> QED
  BY <1>1, <1>2, <1>3, <1>4, <1>5 DEF IInv

LEMMA Inv_send_config_request ==
  ASSUME IInv, send_config_request
  PROVE  IInv'
<1>1. InboxInv'
  BY InboxKept DEF IInv, send_config_request
<1>2. PollsInv'
  BY StartupAssumption DEF IInv, PollsInv, send_config_request, agentVars
<1>3. ConfigInv'
  BY StartupAssumption DEF IInv, ConfigInv, send_config_request, Places, Final, Before, Asking, Started, Parts, AgentChannels, CoreChannels
<1>4. WholeInv'
  BY DEF IInv, WholeInv, ConfigInv, send_config_request, Places, Final, Before, Asking, Started, Parts, AgentChannels, CoreChannels
<1>5. ListsInv'
  BY DEF IInv, ListsInv, OneDocumentUsed, ConfigInv, send_config_request, agentVars, Places, Final, Before, Asking, Started, Parts, AgentChannels, CoreChannels
<1> QED
  BY <1>1, <1>2, <1>3, <1>4, <1>5 DEF IInv

LEMMA Inv_end_poll ==
  ASSUME IInv, end_poll
  PROVE  IInv'
<1>1. InboxInv'
  BY InboxKept DEF IInv, end_poll
<1>2. PollsInv'
  BY StartupAssumption DEF IInv, PollsInv, end_poll, agentVars
<1>3. ConfigInv'
  BY StartupAssumption DEF IInv, ConfigInv, end_poll, Places, Final, Before, Asking, Started, Parts, AgentChannels, CoreChannels
<1>4. WholeInv'
  BY DEF IInv, WholeInv, ConfigInv, end_poll, Places, Final, Before, Asking, Started, Parts, AgentChannels, CoreChannels
<1>5. ListsInv'
  BY DEF IInv, ListsInv, OneDocumentUsed, ConfigInv, end_poll, agentVars, Places, Final, Before, Asking, Started, Parts, AgentChannels, CoreChannels
<1> QED
  BY <1>1, <1>2, <1>3, <1>4, <1>5 DEF IInv

LEMMA Inv_sleep ==
  ASSUME IInv, sleep
  PROVE  IInv'
<1>1. InboxInv'
  BY InboxKept DEF IInv, sleep
<1>2. PollsInv'
  BY StartupAssumption DEF IInv, PollsInv, sleep, agentVars
<1>3. ConfigInv'
  BY StartupAssumption DEF IInv, ConfigInv, sleep, Places, Final, Before, Asking, Started, Parts, AgentChannels, CoreChannels
<1>4. WholeInv'
  BY DEF IInv, WholeInv, ConfigInv, sleep, Places, Final, Before, Asking, Started, Parts, AgentChannels, CoreChannels
<1>5. ListsInv'
  BY DEF IInv, ListsInv, OneDocumentUsed, ConfigInv, sleep, agentVars, Places, Final, Before, Asking, Started, Parts, AgentChannels, CoreChannels
<1> QED
  BY <1>1, <1>2, <1>3, <1>4, <1>5 DEF IInv

LEMMA Inv_create_aeron_core_channels ==
  ASSUME IInv, NEW channels \in SUBSET CoreChannels, create_aeron_core_channels(channels)
  PROVE  IInv'
<1>1. InboxInv'
  BY InboxKept DEF IInv, create_aeron_core_channels
<1>2. PollsInv'
  BY StartupAssumption DEF IInv, PollsInv, create_aeron_core_channels, agentVars
<1>3. ConfigInv'
  BY StartupAssumption DEF IInv, ConfigInv, create_aeron_core_channels, Places, Final, Before, Asking, Started, Parts, AgentChannels, CoreChannels
<1>4. WholeInv'
  BY DEF IInv, WholeInv, ConfigInv, create_aeron_core_channels, Places, Final, Before, Asking, Started, Parts, AgentChannels, CoreChannels
<1>5. ListsInv'
  BY DEF IInv, ListsInv, OneDocumentUsed, ConfigInv, create_aeron_core_channels, agentVars, Places, Final, Before, Asking, Started, Parts, AgentChannels, CoreChannels
<1> QED
  BY <1>1, <1>2, <1>3, <1>4, <1>5 DEF IInv

LEMMA Inv_create_private_REST ==
  ASSUME IInv, create_private_REST
  PROVE  IInv'
<1>1. InboxInv'
  BY InboxKept DEF IInv, create_private_REST
<1>2. PollsInv'
  BY StartupAssumption DEF IInv, PollsInv, create_private_REST, agentVars
<1>3. ConfigInv'
  BY StartupAssumption DEF IInv, ConfigInv, create_private_REST, Places, Final, Before, Asking, Started, Parts, AgentChannels, CoreChannels
<1>4. WholeInv'
  BY DEF IInv, WholeInv, ConfigInv, create_private_REST, Places, Final, Before, Asking, Started, Parts, AgentChannels, CoreChannels
<1>5. ListsInv'
  BY DEF IInv, ListsInv, OneDocumentUsed, ConfigInv, create_private_REST, agentVars, Places, Final, Before, Asking, Started, Parts, AgentChannels, CoreChannels
<1> QED
  BY <1>1, <1>2, <1>3, <1>4, <1>5 DEF IInv

LEMMA Inv_create_private_ws ==
  ASSUME IInv, create_private_ws
  PROVE  IInv'
<1>1. InboxInv'
  BY InboxKept DEF IInv, create_private_ws
<1>2. PollsInv'
  BY StartupAssumption DEF IInv, PollsInv, create_private_ws, agentVars
<1>3. ConfigInv'
  BY StartupAssumption DEF IInv, ConfigInv, create_private_ws, Places, Final, Before, Asking, Started, Parts, AgentChannels, CoreChannels
<1>4. WholeInv'
  BY DEF IInv, WholeInv, ConfigInv, create_private_ws, Places, Final, Before, Asking, Started, Parts, AgentChannels, CoreChannels
<1>5. ListsInv'
  BY DEF IInv, ListsInv, OneDocumentUsed, ConfigInv, create_private_ws, agentVars, Places, Final, Before, Asking, Started, Parts, AgentChannels, CoreChannels
<1> QED
  BY <1>1, <1>2, <1>3, <1>4, <1>5 DEF IInv

LEMMA Inv_create_public_ws ==
  ASSUME IInv, create_public_ws
  PROVE  IInv'
<1>1. InboxInv'
  BY InboxKept DEF IInv, create_public_ws
<1>2. PollsInv'
  BY StartupAssumption DEF IInv, PollsInv, create_public_ws, agentVars
<1>3. ConfigInv'
  BY StartupAssumption DEF IInv, ConfigInv, create_public_ws, Places, Final, Before, Asking, Started, Parts, AgentChannels, CoreChannels
<1>4. WholeInv'
  BY DEF IInv, WholeInv, ConfigInv, create_public_ws, Places, Final, Before, Asking, Started, Parts, AgentChannels, CoreChannels
<1>5. ListsInv'
  BY DEF IInv, ListsInv, OneDocumentUsed, ConfigInv, create_public_ws, agentVars, Places, Final, Before, Asking, Started, Parts, AgentChannels, CoreChannels
<1> QED
  BY <1>1, <1>2, <1>3, <1>4, <1>5 DEF IInv

LEMMA Inv_agent_sends ==
  ASSUME IInv, NEW d \in Documents, agent_sends(d)
  PROVE  IInv'
<1>1. d.size \in Nat \ {0}
  BY StartupAssumption
<1>2. InboxInv'
  <2> DEFINE e == [doc |-> d, upto |-> published + d.size]
             E == [doc : Documents, upto : Nat]
  <2>1. e \in E /\ inbox \in Seq(E) /\ inbox' = Append(inbox, e)
    BY <1>1 DEF agent_sends, IInv, InboxInv, PollsInv
  <2>2. inbox' \in Seq(E) /\ Len(inbox') = Len(inbox) + 1
    BY <2>1
  <2>4. IsSequence(arrived') /\ Len(arrived') = Len(arrived) + 1
    BY AppendSequence DEF agent_sends, IInv, InboxInv
  <2>5. Len(arrived) \in Nat /\ Len(inbox) \in Nat
    BY <2>1 DEF IInv, InboxInv, IsSequence
  <2>6. Len(arrived') <= MaxDocuments
    BY <2>4, <2>5, StartupAssumption DEF agent_sends
  <2>7. refused' \in Nat /\ refused' + Len(inbox') <= Len(arrived')
    BY <2>2, <2>4, <2>5 DEF agent_sends, IInv, InboxInv
  <2>8. published' \in Nat /\ position' \in Nat
    BY <1>1 DEF agent_sends, IInv, InboxInv
  <2> QED
    BY <2>2, <2>4, <2>6, <2>7, <2>8 DEF InboxInv
<1>3. PollsInv' /\ ConfigInv' /\ WholeInv' /\ ListsInv'
  BY DEF IInv, PollsInv, ConfigInv, WholeInv, ListsInv, OneDocumentUsed, agent_sends
<1> QED
  BY <1>2, <1>3 DEF IInv

LEMMA Inv_pool_from_agent ==
  ASSUME IInv, pool_from_agent
  PROVE  IInv'
<1>1. InboxInv'
  BY DEF IInv, InboxInv, pool_from_agent
<1>2. PollsInv'
  BY StartupAssumption DEF IInv, PollsInv, pool_from_agent
<1>3. ConfigInv'
  BY DEF IInv, ConfigInv, pool_from_agent, Places, Before, Asking
<1>4. WholeInv' /\ ListsInv'
  BY DEF IInv, WholeInv, ListsInv, OneDocumentUsed, pool_from_agent, Started, Before, Asking
<1> QED
  BY <1>1, <1>2, <1>3, <1>4 DEF IInv

LEMMA Inv_read_fragment ==
  ASSUME IInv, read_fragment
  PROVE  IInv'
<1>1. InboxInv'
  BY DEF IInv, InboxInv, read_fragment
<1>2. PollsInv'
  BY StartupAssumption DEF IInv, PollsInv, read_fragment, Reads
<1>3. ConfigInv' /\ WholeInv' /\ ListsInv'
  BY DEF IInv, ConfigInv, WholeInv, ListsInv, OneDocumentUsed, read_fragment
<1> QED
  BY <1>1, <1>2, <1>3 DEF IInv

LEMMA Inv_config_from_agent_handler ==
  ASSUME IInv, NEW allocated \in BOOLEAN, config_from_agent_handler(allocated)
  PROVE  IInv'
<1> DEFINE d == Head(inbox).doc
           taken == ~received /\ allocated /\ d.parses
           E == [doc : Documents, upto : Nat]
<1>1. pc = "deliver" /\ budget > 0 /\ inbox \in Seq(E) /\ inbox # <<>> /\ d \in Documents
  <2>1. pc = "deliver" /\ budget > 0 /\ inbox \in Seq(E) /\ inbox # <<>>
    BY DEF IInv, InboxInv, config_from_agent_handler, Reads
  <2>2. Head(inbox) \in E
    <3> HIDE DEF E
    <3> QED
      BY <2>1, HeadTailProperties
  <2> QED
    BY <2>1, <2>2
<1>2. /\ d.markets \in Seq(STRING) /\ d.assets \in Seq(STRING) /\ d.given \in SUBSET Fields
      /\ d.parses \in BOOLEAN /\ d.gate \in BOOLEAN
  BY <1>1, StartupAssumption
<1>3. InboxInv'
  <2>1. inbox' \in Seq(E) /\ Len(inbox') = Len(inbox) - 1 /\ Len(inbox) \in Nat \ {0}
    BY <1>1 DEF config_from_agent_handler
  <2>3. refused' \in {refused, refused + 1} /\ arrived' = arrived
    BY DEF config_from_agent_handler
  <2>4. refused' \in Nat /\ refused' + Len(inbox') <= Len(arrived')
    BY <2>1, <2>3 DEF IInv, InboxInv, IsSequence
  <2> QED
    BY <2>1, <2>3, <2>4 DEF IInv, InboxInv, config_from_agent_handler
<1>4. PollsInv'
  BY <1>1, StartupAssumption DEF IInv, PollsInv, config_from_agent_handler
<1> DEFINE new == [markets |-> config.markets \o d.markets,
                   assets  |-> d.assets,
                   given   |-> (config.given \ {"assets"}) \cup (d.given \ {"algo"})]
           C == [markets : Seq(STRING), assets : Seq(STRING), given : SUBSET Fields]
<1>5. config \in C /\ subscribed = 0 /\ received \in BOOLEAN
  BY <1>1 DEF IInv, ConfigInv, Before, Asking
<1>6. config.markets \o d.markets \in Seq(STRING)
  BY <1>2, <1>5, SuffixOfConcat
<1>7. new \in C
  BY <1>2, <1>5, <1>6
<1>8. config' = IF ~taken THEN config ELSE new
  BY Zenon DEF config_from_agent_handler
<1>9. /\ ~taken \/ ~d.gate => /\ received' = (received \/ ~allocated) /\ accepted' = accepted
                              /\ taken => refused' = refused + 1
                              /\ ~taken => refused' = refused
      /\ taken /\ d.gate => received' = TRUE /\ accepted' = {d} /\ refused' = refused
  BY <1>2, <1>5 DEF config_from_agent_handler
<1>10. config' \in C
  BY <1>5, <1>7, <1>8
<1>11. ConfigInv'
  <2>1. subscribed' = 0 /\ 0 \in 0..Len(config'.markets)
    BY <1>5, <1>10 DEF config_from_agent_handler
  <2>2. received' \in BOOLEAN
    BY <1>5, <1>9
  <2>3. \/ accepted' = {}
        \/ received' /\ \E a \in Documents : accepted' = {a}
    <3>1. CASE taken /\ d.gate
      BY <1>1, <1>9, <3>1
    <3>2. CASE ~taken \/ ~d.gate
      <4>1. received' = (received \/ ~allocated) /\ accepted' = accepted
        BY <1>9, <3>2
      <4>2. \/ accepted = {}
            \/ received /\ \E a \in Documents : accepted = {a}
        BY DEF IInv, ConfigInv
      <4> QED
        BY <4>1, <4>2
    <3> QED
      BY <3>1, <3>2
  <2> QED
    BY <1>10, <2>1, <2>2, <2>3 DEF config_from_agent_handler, IInv, ConfigInv
<1>12. WholeInv'
  BY <1>1 DEF WholeInv, config_from_agent_handler, Started
<1>13. OneDocumentUsed'
  <2>1. CASE taken /\ d.gate
    <3>1. /\ accepted' = {d} /\ refused' = refused /\ config'.assets = d.assets
          /\ config'.markets = config.markets \o d.markets
      BY <1>8, <1>9, <2>1
    <3>2. refused = 0 => config.markets = <<>>
      BY <1>1, <2>1 DEF IInv, ListsInv, Before, Asking
    <3>3. config.markets \in Seq(STRING)
      BY <1>5
    <3>4. /\ refused' = 0 => config'.markets = d.markets
          /\ \A n \in 1..Len(d.markets) :
               config'.markets[Len(config'.markets) - Len(d.markets) + n] = d.markets[n]
      <4> DEFINE old == config.markets
                 doc == d.markets
      <4>1. old \in Seq(STRING) /\ doc \in Seq(STRING)
        BY <1>2, <3>3
      <4> HIDE DEF old, doc
      <4>2. /\ \A n \in 1..Len(doc) : (old \o doc)[Len(old \o doc) - Len(doc) + n] = doc[n]
            /\ old = <<>> => old \o doc = doc
        BY <4>1, SuffixOfConcat
      <4>3. config'.markets = old \o doc /\ (refused' = 0 => old = <<>>)
        BY <3>1, <3>2 DEF old, doc
      <4>4. /\ refused' = 0 => config'.markets = doc
            /\ \A n \in 1..Len(doc) :
                 config'.markets[Len(config'.markets) - Len(doc) + n] = doc[n]
        BY <4>2, <4>3
      <4> QED
        BY <4>4 DEF doc
    <3> QED
      BY <3>1, <3>4 DEF OneDocumentUsed
  <2>2. CASE ~taken
    BY <1>8, <1>9, <2>2 DEF IInv, ListsInv, OneDocumentUsed
  <2>3. CASE taken /\ ~d.gate
    BY <1>9, <2>3 DEF IInv, ConfigInv, OneDocumentUsed
  <2> QED
    BY <1>2, <1>5, <2>1, <2>2, <2>3
<1>14. ListsInv'
  <2>1. refused \in Nat
    BY DEF IInv, InboxInv
  <2>2. ~received' /\ refused' = 0 => config'.markets = <<>>
    BY <1>1, <1>2, <1>5, <1>8, <1>9, <2>1 DEF IInv, ListsInv, Before, Asking
  <2> QED
    BY <1>1, <1>13, <2>2 DEF ListsInv, config_from_agent_handler
<1> QED
  BY <1>3, <1>4, <1>11, <1>12, <1>14 DEF IInv

LEMMA InvStep == IInv /\ [Next]_vars => IInv'
<1> SUFFICES ASSUME IInv, [Next]_vars
             PROVE  IInv'
  OBVIOUS
<1>1. CASE UNCHANGED vars
  BY <1>1 DEF IInv, InboxInv, PollsInv, ConfigInv, WholeInv, ListsInv, OneDocumentUsed, vars
<1>2. CASE Main
  BY <1>2, Inv_parse_config, Inv_load_config, Inv_no_config, Inv_create_agent_channel,
     Inv_send_config_request, Inv_pool_from_agent, Inv_read_fragment,
     Inv_config_from_agent_handler, Inv_end_poll, Inv_sleep,
     Inv_create_aeron_core_channels, Inv_create_private_REST, Inv_create_private_ws,
     Inv_create_public_ws, Zenon DEF Main
<1>3. CASE \E d \in Documents : agent_sends(d)
  BY <1>3, Inv_agent_sends
<1> QED
  BY <1>1, <1>2, <1>3 DEF Next

LEMMA Invariant == Spec => []IInv
  BY InvInit, InvStep, PTL DEF Spec

-----------------------------------------------------------------------------
(* The agent's documents are read in time *)

LEMMA OneMorePoll ==
  ASSUME NEW x \in Int
  PROVE  FragmentLimit * (x + 1) = FragmentLimit * x + FragmentLimit
BY StartupAssumption

LEMMA AnswerInit == Init => AnswerInv
BY DEF Init, AnswerInv, StreamInv, Answering

LEMMA AnswerQuiet ==
  ASSUME AnswerInv, UNCHANGED agentVars, received => received', pc # "deliver",
         pc' \notin {"deliver", "sleep", "gave up"}
  PROVE  AnswerInv'
<1>1. StreamInv'
  BY DEF AnswerInv, StreamInv, agentVars
<1>2. Spare' = Spare
  BY DEF Spare
<1>3. \A a : Awaited(a) => Awaited(a)'
  BY <1>2 DEF Awaited, agentVars
<1>4. \A a : Taken(a) => Taken(a)'
  BY DEF Taken, agentVars
<1>5. Answering'
  <2> SUFFICES ASSUME NEW n \in 1..Len(arrived) PROVE (Awaited(arrived[n]) /\ Taken(arrived[n]))'
    BY DEF Answering, agentVars
  <2>1. PICK a : a = arrived[n]
    OBVIOUS
  <2>2. arrived'[n] = a
    BY <2>1 DEF agentVars
  <2>3. Awaited(a)' /\ Taken(a)'
    BY <1>3, <1>4, <2>1 DEF AnswerInv, Answering
  <2> QED
    BY <2>2, <2>3
<1> QED
  BY <1>1, <1>5 DEF AnswerInv

LEMMA Answer_end_poll ==
  ASSUME IInv, AnswerInv, end_poll
  PROVE  AnswerInv'
<1>1. StreamInv'
  BY DEF AnswerInv, StreamInv, agentVars, end_poll
<1>2. /\ pc = "deliver" /\ (budget = 0 \/ inbox = <<>>)
      /\ pc' = IF received THEN "core" ELSE "sleep"
      /\ UNCHANGED <<received, inbox, published, position, polls, budget, arrived>>
  BY DEF end_poll, agentVars
<1>3. Answering'
  <2> SUFFICES ASSUME NEW n \in 1..Len(arrived) PROVE (Awaited(arrived[n]) /\ Taken(arrived[n]))'
    BY <1>2 DEF Answering
  <2>1. PICK a : a = arrived[n]
    OBVIOUS
  <2>2. Awaited(a) /\ Taken(a) /\ arrived'[n] = a
    BY <1>2, <2>1 DEF AnswerInv, Answering
  <2>3. CASE budget = 0
    <3>1. Spare = 0 /\ Spare' = 0
      BY <1>2, <2>3 DEF Spare
    <3> QED
      BY <1>2, <2>2, <3>1 DEF Awaited, Taken
  <2>4. CASE inbox = <<>>
    <3>0. ~\E k \in 1..Len(inbox) : inbox[k].doc = a.doc /\ inbox[k].upto = a.upto
      <4>1. Len(inbox) = 0
        BY <2>4
      <4> QED
        BY <4>1
    <3>1. ~(a.upto > position)
      BY <2>1, <3>0 DEF AnswerInv, StreamInv
    <3> QED
      BY <1>2, <2>2, <3>1 DEF Awaited, Taken
  <2> QED
    BY <1>2, <2>3, <2>4
<1> QED
  BY <1>1, <1>2, <1>3 DEF AnswerInv

LEMMA Answer_sleep ==
  ASSUME IInv, AnswerInv, sleep
  PROVE  AnswerInv'
<1>1. StreamInv'
  BY DEF AnswerInv, StreamInv, agentVars, sleep
<1>2. /\ pc = "sleep" /\ pc' = (IF polls < MaxPolls THEN "poll" ELSE "gave up")
      /\ UNCHANGED <<received, inbox, published, position, polls, budget, arrived>>
  BY DEF sleep, agentVars
<1>3. Spare' = Spare
  BY <1>2 DEF Spare
<1>4. Answering'
  <2> SUFFICES ASSUME NEW n \in 1..Len(arrived) PROVE (Awaited(arrived[n]) /\ Taken(arrived[n]))'
    BY <1>2 DEF Answering
  <2>1. PICK a : a = arrived[n]
    OBVIOUS
  <2>2. Awaited(a) /\ Taken(a) /\ arrived'[n] = a
    BY <1>2, <2>1 DEF AnswerInv, Answering
  <2> QED
    BY <1>2, <1>3, <2>2 DEF Awaited, Taken
<1>5. pc' = "gave up" => polls' = MaxPolls
  <2>1. polls \in 0..MaxPolls /\ MaxPolls \in Nat
    BY StartupAssumption DEF IInv, PollsInv
  <2>2. CASE polls < MaxPolls
    BY <1>2, <2>2
  <2>3. CASE ~(polls < MaxPolls)
    <3>1. polls = MaxPolls
      BY <2>1, <2>3
    <3> QED
      BY <1>2, <3>1
  <2> QED
    BY <2>2, <2>3
<1> QED
  BY <1>1, <1>2, <1>4, <1>5 DEF AnswerInv

LEMMA Answer_pool_from_agent ==
  ASSUME IInv, AnswerInv, pool_from_agent
  PROVE  AnswerInv'
<1>1. StreamInv'
  BY DEF AnswerInv, StreamInv, pool_from_agent
<1>2. /\ pc = "poll" /\ pc' = "deliver" /\ polls' = polls + 1 /\ budget' = FragmentLimit
      /\ UNCHANGED <<received, inbox, published, position, arrived>>
  BY DEF pool_from_agent
<1>3. Spare = 0 /\ Spare' = FragmentLimit
  BY <1>2 DEF Spare
<1>4. Answering'
  <2> SUFFICES ASSUME NEW n \in 1..Len(arrived) PROVE (Awaited(arrived[n]) /\ Taken(arrived[n]))'
    BY <1>2 DEF Answering
  <2>1. PICK a : a = arrived[n]
    OBVIOUS
  <2>2. /\ Awaited(a) /\ Taken(a) /\ arrived'[n] = a
        /\ a.at \in Nat /\ a.read \in Nat /\ a.upto \in Nat
    BY <1>2, <2>1 DEF AnswerInv, Answering, StreamInv
  <2>3. FragmentLimit * (polls' - a.at) = FragmentLimit * (polls - a.at) + FragmentLimit
    <3>1. polls - a.at \in Int /\ polls' - a.at = (polls - a.at) + 1
      BY <1>2, <2>2 DEF IInv, PollsInv
    <3> QED
      BY <3>1, OneMorePoll
  <2>4. /\ position \in Int /\ FragmentLimit \in Int
        /\ FragmentLimit * (polls - a.at) \in Int
    BY <2>2, StartupAssumption DEF IInv, InboxInv, PollsInv
  <2>5. Awaited(a)'
    <3> SUFFICES ASSUME a.upto > position
                 PROVE  (position - a.read) + Spare' >= FragmentLimit * (polls' - a.at)
      BY <1>2 DEF Awaited
    <3>1. (position - a.read) + 0 >= FragmentLimit * (polls - a.at)
      BY <1>3, <2>2 DEF Awaited
    <3> QED
      BY <1>3, <2>2, <2>3, <2>4, <3>1
  <2>6. Taken(a)'
    BY <1>2, <2>2 DEF Taken
  <2> QED
    BY <2>2, <2>5, <2>6
<1> QED
  BY <1>1, <1>2, <1>4 DEF AnswerInv

LEMMA UptoIsNat ==
  ASSUME InboxInv, NEW n \in 1..Len(inbox)
  PROVE  inbox[n].doc \in Documents /\ inbox[n].upto \in Nat
<1> DEFINE E == [doc : Documents, upto : Nat]
<1>1. inbox[n] \in E
  <2>1. inbox \in Seq(E)
    BY DEF InboxInv
  <2> HIDE DEF E
  <2> QED
    BY <2>1
<1> QED
  BY <1>1

\* One more fragment has been read: what is awaited of a document, and what is left.
LEMMA AnswerReads ==
  ASSUME IInv, AnswerInv, Reads, position' = position + 1, budget' = budget - 1,
         UNCHANGED <<pc, polls>>, NEW n \in 1..Len(arrived), NEW a, a = arrived[n]
  PROVE  Awaited(a)'
<1>1. /\ a.at \in Nat /\ a.read \in Nat /\ a.upto \in Nat /\ Awaited(a)
  BY DEF AnswerInv, StreamInv, Answering
<1>2. position \in Int /\ budget \in Int /\ Spare = budget /\ Spare' = budget - 1
  BY StartupAssumption DEF IInv, InboxInv, PollsInv, Spare, Reads
<1>3. PICK p : p = FragmentLimit * (polls - a.at)
  OBVIOUS
<1>4. p \in Int
  BY <1>1, <1>3, StartupAssumption DEF IInv, PollsInv
<1>5. a.upto > position + 1 => (position + 1 - a.read) + (budget - 1) >= p
  <2> SUFFICES ASSUME a.upto > position + 1
               PROVE  (position + 1 - a.read) + (budget - 1) >= p
    OBVIOUS
  <2>1. (position - a.read) + budget >= p
    BY <1>1, <1>2, <1>3 DEF Awaited
  <2> QED
    BY <1>1, <1>2, <1>4, <2>1
<1>6. position' = position + 1 /\ Spare' = budget - 1 /\ FragmentLimit * (polls' - a.at) = p
  BY <1>2, <1>3
<1>7. a.upto > position' => (position' - a.read) + Spare' >= FragmentLimit * (polls' - a.at)
  <2>1. PICK q : q = position'
    OBVIOUS
  <2>2. PICK r : r = Spare'
    OBVIOUS
  <2>3. PICK t : t = FragmentLimit * (polls' - a.at)
    OBVIOUS
  <2>4. q = position + 1 /\ r = budget - 1 /\ t = p
    BY <1>6, <2>1, <2>2, <2>3, Zenon
  <2>5. a.upto > q => (q - a.read) + r >= t
    BY <1>1, <1>2, <1>4, <1>5, <2>4
  <2> QED
    BY <2>1, <2>2, <2>3, <2>5, Zenon
<1> QED
  BY <1>7 DEF Awaited

LEMMA Answer_read_fragment ==
  ASSUME IInv, AnswerInv, read_fragment
  PROVE  AnswerInv'
<1>1. /\ Reads /\ Head(inbox).upto > position + 1
      /\ position' = position + 1 /\ budget' = budget - 1
      /\ UNCHANGED <<pc, polls, inbox, published, received, arrived>>
  BY DEF read_fragment
<1>2. inbox \in Seq([doc : Documents, upto : Nat]) /\ inbox # <<>> /\ position \in Nat
  BY <1>1 DEF IInv, InboxInv, Reads
<1>3. Len(inbox) \in Nat \ {0} /\ inbox[1].upto > position + 1
  BY <1>1, <1>2
<1>4. \A n \in 1..Len(inbox) : inbox[n].upto > position + 1
  <2> TAKE n \in 1..Len(inbox)
  <2>1. CASE n = 1
    BY <1>3, <2>1
  <2>2. CASE n # 1
    <3>1. 1 < n /\ 1 \in 1..Len(inbox)
      BY <1>3, <2>2
    <3>2. inbox[1].upto < inbox[n].upto
      BY <3>1 DEF AnswerInv, StreamInv
    <3>3. inbox[1].upto \in Nat /\ inbox[n].upto \in Nat
      BY <3>1, UptoIsNat DEF IInv
    <3> QED
      BY <1>2, <1>3, <3>2, <3>3
  <2> QED
    BY <2>1, <2>2
<1>5. \A n \in 1..Len(arrived) : arrived[n].upto \in Nat /\ (arrived[n].upto > position => arrived[n].upto > position + 1)
  <2> TAKE n \in 1..Len(arrived)
  <2>1. arrived[n].upto > position => \E k \in 1..Len(inbox) : inbox[k].upto = arrived[n].upto
    BY DEF AnswerInv, StreamInv
  <2> QED
    BY <1>4, <2>1 DEF AnswerInv, StreamInv
<1>6. StreamInv'
  <2>1. \A n \in 1..Len(inbox') : inbox'[n].upto > position' /\ inbox'[n].upto <= published'
    BY <1>1, <1>4 DEF AnswerInv, StreamInv
  <2>2. \A n \in 1..Len(arrived) : arrived[n].upto > position + 1 => arrived[n].upto > position
    BY <1>2, <1>5
  <2>3. position' <= published'
    <3>1. 1 \in 1..Len(inbox)
      BY <1>3
    <3>2. inbox[1].upto \in Nat /\ inbox[1].upto <= published
      BY <3>1, UptoIsNat DEF IInv, AnswerInv, StreamInv
    <3> QED
      BY <1>1, <1>2, <1>3, <3>2 DEF IInv, InboxInv
  <2> QED
    BY <1>1, <2>1, <2>2, <2>3 DEF AnswerInv, StreamInv
<1>7. Answering'
  <2> SUFFICES ASSUME NEW n \in 1..Len(arrived) PROVE (Awaited(arrived[n]) /\ Taken(arrived[n]))'
    BY <1>1 DEF Answering
  <2>1. PICK a : a = arrived[n]
    OBVIOUS
  <2>2. arrived'[n] = a /\ Taken(a)
    BY <1>1, <2>1 DEF AnswerInv, Answering
  <2>3. Awaited(a)'
    BY <1>1, <2>1, AnswerReads
  <2>4. a.upto <= position + 1 => a.upto <= position
    BY <1>2, <1>5, <2>1
  <2>5. Taken(a)'
    BY <1>1, <2>2, <2>4 DEF Taken
  <2> QED
    BY <2>2, <2>3, <2>5
<1> QED
  BY <1>1, <1>6, <1>7 DEF AnswerInv, Reads

\* The handler's document is the only one that ends where the gateway has come to.
LEMMA Answer_config_from_agent_handler ==
  ASSUME IInv, AnswerInv, NEW allocated \in BOOLEAN, config_from_agent_handler(allocated)
  PROVE  AnswerInv'
<1>1. /\ Reads /\ Head(inbox).upto = position + 1
      /\ position' = position + 1 /\ budget' = budget - 1 /\ inbox' = Tail(inbox)
      /\ UNCHANGED <<pc, polls, published, arrived>>
  BY DEF config_from_agent_handler
<1>2. inbox \in Seq([doc : Documents, upto : Nat]) /\ inbox # <<>> /\ position \in Nat
  BY <1>1 DEF IInv, InboxInv, Reads
<1>3. /\ Len(inbox) \in Nat \ {0} /\ Len(inbox') = Len(inbox) - 1
      /\ \A k \in 1..Len(inbox') : inbox'[k] = inbox[k + 1]
      /\ Head(inbox) = inbox[1]
  BY <1>1, <1>2
<1>4. inbox[1].upto = position + 1
  BY <1>1, <1>3, Zenon
<1>5. \A n \in 1..Len(inbox) : inbox[n].upto \in Nat /\ (n # 1 => inbox[n].upto > position + 1)
  <2> TAKE n \in 1..Len(inbox)
  <2>1. inbox[n].upto \in Nat
    BY UptoIsNat DEF IInv
  <2>2. ASSUME n # 1
        PROVE  inbox[n].upto > position + 1
    <3>1. 1 < n /\ 1 \in 1..Len(inbox)
      BY <1>3, <2>2
    <3>2. inbox[1].upto < inbox[n].upto
      BY <3>1 DEF AnswerInv, StreamInv
    <3> QED
      BY <1>2, <1>4, <2>1, <3>2
  <2> QED
    BY <2>1, <2>2
<1>6. \A k \in 1..Len(inbox') : k + 1 \in 1..Len(inbox) /\ k + 1 # 1 /\ inbox'[k] = inbox[k + 1]
  BY <1>3
<1>7. StreamInv'
  <2>1. \A k \in 1..Len(inbox') : inbox'[k].upto > position' /\ inbox'[k].upto <= published'
    <3> TAKE k \in 1..Len(inbox')
    <3>1. inbox[k + 1].upto > position + 1 /\ inbox[k + 1].upto <= published
      BY <1>5, <1>6 DEF AnswerInv, StreamInv
    <3> QED
      BY <1>1, <1>6, <3>1
  <2>2. \A n, k \in 1..Len(inbox') : n < k => inbox'[n].upto < inbox'[k].upto
    <3> SUFFICES ASSUME NEW n \in 1..Len(inbox'), NEW k \in 1..Len(inbox'), n < k
                 PROVE  inbox'[n].upto < inbox'[k].upto
      OBVIOUS
    <3>1. n + 1 < k + 1
      BY <1>3
    <3>2. inbox[n + 1].upto < inbox[k + 1].upto
      BY <1>6, <3>1 DEF AnswerInv, StreamInv
    <3> QED
      BY <1>6, <3>2
  <2>3. ASSUME NEW n \in 1..Len(arrived)
        PROVE  /\ arrived[n].upto \in Nat /\ arrived[n].read \in Nat /\ arrived[n].at \in Nat
               /\ arrived[n].upto > position + 1 =>
                    \E k \in 1..Len(inbox') : inbox'[k].doc = arrived[n].doc /\ inbox'[k].upto = arrived[n].upto
    <3>1. arrived[n].upto \in Nat /\ arrived[n].read \in Nat /\ arrived[n].at \in Nat
      BY DEF AnswerInv, StreamInv
    <3>2. ASSUME arrived[n].upto > position + 1
          PROVE  \E k \in 1..Len(inbox') : inbox'[k].doc = arrived[n].doc /\ inbox'[k].upto = arrived[n].upto
      <4>1. arrived[n].upto > position
        BY <1>2, <3>1, <3>2
      <4>2. PICK j \in 1..Len(inbox) : inbox[j].doc = arrived[n].doc /\ inbox[j].upto = arrived[n].upto
        BY <4>1 DEF AnswerInv, StreamInv
      <4>3. j # 1
        BY <1>2, <1>4, <3>2, <4>2
      <4>4. PICK k : k = j - 1
        OBVIOUS
      <4>5. k \in 1..Len(inbox') /\ k + 1 = j
        BY <1>3, <4>3, <4>4
      <4>6. inbox'[k] = inbox[j]
        BY <1>6, <4>5
      <4> QED
        BY <4>2, <4>5, <4>6
    <3> QED
      BY <3>1, <3>2
  <2>4. position + 1 <= published
    <3>1. 1 \in 1..Len(inbox)
      BY <1>3
    <3>2. inbox[1].upto <= published
      BY <3>1 DEF AnswerInv, StreamInv
    <3> QED
      BY <1>4, <3>2, Zenon
  <2> QED
    BY <1>1, <2>1, <2>2, <2>3, <2>4 DEF StreamInv
<1>8. ASSUME NEW a, a.doc.parses, a.doc.gate, a.upto \in Nat, a.upto <= position + 1,
             NEW n \in 1..Len(arrived), a = arrived[n]
      PROVE  received'
  <2>1. CASE a.upto <= position
    <3>1. received
      BY <1>8, <2>1 DEF AnswerInv, Answering, Taken
    <3> QED
      BY <3>1 DEF config_from_agent_handler
  <2>2. CASE a.upto = position + 1
    <3>1. a.upto > position
      BY <1>2, <2>2
    <3>2. PICK j \in 1..Len(inbox) : inbox[j].doc = a.doc /\ inbox[j].upto = a.upto
      BY <1>8, <3>1 DEF AnswerInv, StreamInv
    <3>3. j = 1
      BY <1>2, <1>5, <2>2, <3>2
    <3>4. Head(inbox).doc = a.doc
      BY <1>3, <3>2, <3>3
    <3>5. received' = (\/ received \/ ~allocated
                       \/ (~received /\ allocated /\ Head(inbox).doc.parses) /\ Head(inbox).doc.gate)
      BY DEF config_from_agent_handler
    <3> QED
      BY <1>8, <3>4, <3>5 DEF IInv, ConfigInv
  <2> QED
    BY <1>2, <1>8, <2>1, <2>2
<1>9. Answering'
  <2> SUFFICES ASSUME NEW n \in 1..Len(arrived) PROVE (Awaited(arrived[n]) /\ Taken(arrived[n]))'
    BY <1>1 DEF Answering
  <2>1. PICK a : a = arrived[n]
    OBVIOUS
  <2>2. arrived'[n] = a /\ a.upto \in Nat
    BY <1>1, <2>1 DEF AnswerInv, StreamInv
  <2>3. Awaited(a)'
    BY <1>1, <2>1, AnswerReads
  <2>4. Taken(a)'
    BY <1>1, <1>8, <2>1, <2>2 DEF Taken
  <2> QED
    BY <2>2, <2>3, <2>4
<1> QED
  BY <1>1, <1>7, <1>9 DEF AnswerInv, Reads

\* What is sent ends after all there is, and has been awaited for no poll.
LEMMA Answer_agent_sends ==
  ASSUME IInv, AnswerInv, NEW d \in Documents, agent_sends(d)
  PROVE  AnswerInv'
<1>1. PICK e : e = published + d.size
  OBVIOUS
<1>2. /\ published \in Nat /\ position \in Nat /\ e \in Nat /\ e > published
      /\ polls \in Nat
  <2>1. d.size \in Nat \ {0}
    BY StartupAssumption
  <2> QED
    BY <1>1, <2>1, StartupAssumption DEF IInv, InboxInv, PollsInv
<1>3. PICK s : s = [doc |-> d, upto |-> e]
  OBVIOUS
<1>4. PICK b : b = [doc |-> d, at |-> polls, read |-> position, upto |-> e]
  OBVIOUS
<1>5. /\ s.doc = d /\ s.upto = e
      /\ b.doc = d /\ b.at = polls /\ b.read = position /\ b.upto = e
  BY <1>3, <1>4
<1>6. /\ published' = e /\ inbox' = Append(inbox, s) /\ arrived' = Append(arrived, b)
      /\ pc \in {"ask", "poll", "sleep"}
      /\ UNCHANGED <<pc, received, position, polls, budget>>
  BY <1>1, <1>3, <1>4, Zenon DEF agent_sends
<1>7. /\ Len(inbox) \in Nat /\ Len(inbox') = Len(inbox) + 1
      /\ \A n \in 1..Len(inbox) : inbox'[n] = inbox[n] /\ inbox[n].upto \in Nat
      /\ inbox'[Len(inbox) + 1] = s
  <2>1. inbox \in Seq([doc : Documents, upto : Nat])
    BY DEF IInv, InboxInv
  <2>2. IsSequence(inbox)
    BY <2>1 DEF IsSequence
  <2> QED
    BY <1>6, <2>1, <2>2, AppendSequence, UptoIsNat DEF IInv
<1>8. /\ Len(arrived) \in Nat /\ Len(arrived') = Len(arrived) + 1
      /\ \A n \in 1..Len(arrived) : arrived'[n] = arrived[n]
      /\ arrived'[Len(arrived) + 1] = b
  BY <1>6, AppendSequence DEF IInv, InboxInv, IsSequence
<1>9. StreamInv'
  <2>1. position <= published /\ position < e
    <3>1. position <= published
      BY DEF AnswerInv, StreamInv
    <3> QED
      BY <1>2, <3>1
  <2>2. \A n \in 1..Len(inbox) : inbox'[n].upto > position /\ inbox'[n].upto <= published
    BY <1>7 DEF AnswerInv, StreamInv
  <2>3. \A n \in 1..(Len(inbox) + 1) : inbox'[n].upto > position /\ inbox'[n].upto <= e
    <3> TAKE n \in 1..(Len(inbox) + 1)
    <3>1. CASE n \in 1..Len(inbox)
      BY <1>2, <1>7, <2>2, <3>1
    <3>2. CASE n = Len(inbox) + 1
      BY <1>2, <1>5, <1>7, <2>1, <3>2
    <3> QED
      BY <1>7, <3>1, <3>2
  <2>4. \A n, k \in 1..(Len(inbox) + 1) : n < k => inbox'[n].upto < inbox'[k].upto
    <3> SUFFICES ASSUME NEW n \in 1..(Len(inbox) + 1), NEW k \in 1..(Len(inbox) + 1), n < k
                 PROVE  inbox'[n].upto < inbox'[k].upto
      OBVIOUS
    <3>1. n \in 1..Len(inbox)
      BY <1>7
    <3>2. CASE k \in 1..Len(inbox)
      BY <1>7, <3>1, <3>2 DEF AnswerInv, StreamInv
    <3>3. CASE k = Len(inbox) + 1
      BY <1>2, <1>5, <1>7, <2>2, <3>1, <3>3
    <3> QED
      BY <1>7, <3>2, <3>3
  <2>5. ASSUME NEW n \in 1..(Len(arrived) + 1)
        PROVE  /\ arrived'[n].upto \in Nat /\ arrived'[n].read \in Nat /\ arrived'[n].at \in Nat
               /\ arrived'[n].upto > position =>
                    \E k \in 1..(Len(inbox) + 1) :
                      inbox'[k].doc = arrived'[n].doc /\ inbox'[k].upto = arrived'[n].upto
    <3>1. CASE n \in 1..Len(arrived)
      <4>1. arrived'[n] = arrived[n]
        BY <1>8, <3>1
      <4>2. /\ arrived[n].upto \in Nat /\ arrived[n].read \in Nat /\ arrived[n].at \in Nat
            /\ arrived[n].upto > position =>
                 \E k \in 1..Len(inbox) : inbox[k].doc = arrived[n].doc /\ inbox[k].upto = arrived[n].upto
        BY <3>1 DEF AnswerInv, StreamInv
      <4>3. \A k \in 1..Len(inbox) : k \in 1..(Len(inbox) + 1) /\ inbox'[k] = inbox[k]
        BY <1>7
      <4> QED
        BY <4>1, <4>2, <4>3
    <3>2. CASE n = Len(arrived) + 1
      <4>1. Len(inbox) + 1 \in 1..(Len(inbox) + 1)
        BY <1>7
      <4>2. arrived'[n] = b
        BY <1>8, <3>2
      <4> QED
        BY <1>2, <1>5, <1>7, <4>1, <4>2
    <3> QED
      BY <1>8, <3>1, <3>2
  <2>6. position' <= published'
    BY <1>2, <1>6, <2>1
  <2> QED
    BY <1>6, <1>7, <1>8, <2>3, <2>4, <2>5, <2>6 DEF StreamInv
<1>10. Spare = 0 /\ Spare' = 0
  BY <1>6 DEF Spare
<1>11. Awaited(b)' /\ Taken(b)'
  <2>1. FragmentLimit * (polls - polls) = 0 /\ (position - position) + 0 >= 0
    BY <1>2, StartupAssumption
  <2>2. Awaited(b)'
    BY <1>5, <1>6, <1>10, <2>1 DEF Awaited
  <2>3. ~(e <= position)
    <3>1. position <= published
      BY DEF AnswerInv, StreamInv
    <3> QED
      BY <1>2, <3>1
  <2> QED
    BY <1>5, <1>6, <2>2, <2>3 DEF Taken
<1>12. Answering'
  <2> SUFFICES ASSUME NEW n \in 1..(Len(arrived) + 1)
               PROVE  (Awaited(arrived[n]) /\ Taken(arrived[n]))'
    BY <1>8 DEF Answering
  <2>1. CASE n \in 1..Len(arrived)
    <3>1. PICK a : a = arrived[n]
      OBVIOUS
    <3>2. Awaited(a) /\ Taken(a) /\ arrived'[n] = a
      BY <1>8, <2>1, <3>1 DEF AnswerInv, Answering
    <3>3. Awaited(a)' /\ Taken(a)'
      BY <1>6, <1>10, <3>2 DEF Awaited, Taken
    <3> QED
      BY <3>2, <3>3
  <2>2. CASE n = Len(arrived) + 1
    <3>1. arrived'[n] = b
      BY <1>8, <2>2
    <3> QED
      BY <1>11, <3>1
  <2> QED
    BY <1>8, <2>1, <2>2
<1> QED
  BY <1>6, <1>9, <1>12 DEF AnswerInv

LEMMA AnswerStep == IInv /\ AnswerInv /\ [Next]_vars => AnswerInv'
<1> SUFFICES ASSUME IInv, AnswerInv, [Next]_vars
             PROVE  AnswerInv'
  OBVIOUS
<1>1. CASE UNCHANGED vars
  <2>1. /\ UNCHANGED <<pc, received, inbox, published, position, polls, budget, arrived>>
    BY <1>1 DEF vars
  <2> QED
    BY <2>1 DEF AnswerInv, StreamInv, Answering, Awaited, Taken, Spare
<1>2. CASE Main
  <2>1. CASE parse_config
    BY <2>1, AnswerQuiet DEF parse_config
  <2>2. CASE no_config
    BY <2>2, AnswerQuiet DEF no_config
  <2>3. ASSUME NEW d \in Documents, load_config(d)
        PROVE  AnswerInv'
    BY <2>3, AnswerQuiet DEF load_config, IInv, ListsInv
  <2>4. ASSUME NEW channels \in SUBSET AgentChannels, create_agent_channel(channels)
        PROVE  AnswerInv'
    BY <2>4, AnswerQuiet DEF create_agent_channel
  <2>5. CASE send_config_request
    BY <2>5, AnswerQuiet DEF send_config_request
  <2>6. ASSUME NEW channels \in SUBSET CoreChannels, create_aeron_core_channels(channels)
        PROVE  AnswerInv'
    BY <2>6, AnswerQuiet DEF create_aeron_core_channels
  <2>7. CASE create_private_REST
    BY <2>7, AnswerQuiet DEF create_private_REST
  <2>8. CASE create_private_ws
    BY <2>8, AnswerQuiet DEF create_private_ws
  <2>9. CASE create_public_ws
    BY <2>9, AnswerQuiet DEF create_public_ws
  <2> QED
    BY <1>2, <2>1, <2>2, <2>3, <2>4, <2>5, <2>6, <2>7, <2>8, <2>9, Answer_pool_from_agent,
       Answer_read_fragment, Answer_config_from_agent_handler, Answer_end_poll, Answer_sleep,
       Zenon DEF Main
<1>3. CASE \E d \in Documents : agent_sends(d)
  BY <1>3, Answer_agent_sends
<1> QED
  BY <1>1, <1>2, <1>3 DEF Next

LEMMA Answered == Spec => []AnswerInv
<1>1. Init => AnswerInv
  BY AnswerInit
<1>2. IInv /\ AnswerInv /\ [Next]_vars => AnswerInv'
  BY AnswerStep
<1> QED
  BY <1>1, <1>2, Invariant, PTL DEF Spec

LEMMA EarlierOrLater == \A x, y \in Nat : ~(x <= y) => x > y
OBVIOUS

LEMMA LateIfAwaited ==
  ASSUME NEW a, a.upto \in Nat, a.read \in Nat, a.at \in Nat, position \in Nat,
         Awaited(a), a.upto > position, polls = MaxPolls, Spare = 0
  PROVE  Late(a)
<1>1. PICK p : p = FragmentLimit * (MaxPolls - a.at)
  OBVIOUS
<1>2. p \in Int
  BY <1>1, StartupAssumption
<1>3. (position - a.read) + 0 >= p
  BY <1>1 DEF Awaited
<1>4. a.upto - a.read > p
  BY <1>2, <1>3
<1> QED
  BY <1>1, <1>4, Zenon DEF Late

-----------------------------------------------------------------------------
(* Theorems *)

\* Every reachable state of the start has its type; of the channel, that what waits in it
\* has not been read to its end, and ends where the agent has come to at the latest.
THEOREM TypeCorrect == Spec => []TypeOK
<1>1. IInv /\ AnswerInv => TypeOK
  <2> SUFFICES ASSUME IInv, AnswerInv
               PROVE  TypeOK
    OBVIOUS
  <2>1. Len(inbox) <= MaxDocuments /\ refused \in 0..MaxDocuments
    BY StartupAssumption DEF IInv, InboxInv, IsSequence
  <2>2. \A n \in 1..Len(inbox) : inbox[n].doc \in Documents /\ inbox[n].upto \in (position + 1)..published
    <3> TAKE n \in 1..Len(inbox)
    <3>1. inbox[n].doc \in Documents /\ inbox[n].upto \in Nat
      BY UptoIsNat DEF IInv
    <3>2. inbox[n].upto > position /\ inbox[n].upto <= published
      BY DEF AnswerInv, StreamInv
    <3> QED
      BY <3>1, <3>2 DEF IInv, InboxInv
  <2>3. accepted \subseteq Documents /\ Cardinality(accepted) <= 1
    <3>1. CASE accepted = {}
      BY <3>1, FS_EmptySet
    <3>2. CASE \E d \in Documents : accepted = {d}
      <4>1. PICK d \in Documents : accepted = {d}
        BY <3>2
      <4>2. Cardinality({d}) = 1
        BY FS_Singleton
      <4> QED
        BY <4>1, <4>2
    <3> QED
      BY <3>1, <3>2 DEF IInv, ConfigInv
  <2>4. config.given \subseteq Fields
    BY DEF IInv, ConfigInv
  <2> QED
    BY <2>1, <2>2, <2>3, <2>4 DEF IInv, InboxInv, PollsInv, ConfigInv, TypeOK
<1> QED
  BY <1>1, Invariant, Answered, PTL

\* No failure of a channel, a client, a socket or a subscription is passed over on the
\* way into the main loop, whichever they are.
THEOREM WholeTheorem == Spec => []ServesOnlyWhole
<1>1. IInv => ServesOnlyWhole
  BY DEF IInv, WholeInv, ServesOnlyWhole, Started
<1> QED
  BY <1>1, Invariant, PTL

\* Whatever the documents lack, the main loop is not entered without keys and channels.
THEOREM KeysTheorem == Spec => []NeverServesWithoutKeys
<1>1. IInv => NeverServesWithoutKeys
  BY DEF IInv, WholeInv, NeverServesWithoutKeys, Started
<1> QED
  BY <1>1, Invariant, PTL

\* The lists are those of the one document accepted, whatever the agent sends and when.
THEOREM OneDocumentTheorem == Spec => []OneDocumentUsed
<1>1. IInv => OneDocumentUsed
  BY DEF IInv, ListsInv
<1> QED
  BY <1>1, Invariant, PTL

\* The agent is given up only when the polls could not have read its answer in time,
\* however long its documents are and however they are spread over the polls.
THEOREM GivenUpTheorem == Spec => []GivesUpOnlyUnanswered
<1>1. IInv /\ AnswerInv => GivesUpOnlyUnanswered
  <2> SUFFICES ASSUME IInv, AnswerInv, pc = "gave up"
               PROVE  \A n \in 1..Len(arrived) :
                        arrived[n].doc.parses /\ arrived[n].doc.gate => Late(arrived[n])
    BY DEF GivesUpOnlyUnanswered, Late
  <2>1. ~received /\ polls = MaxPolls /\ Spare = 0
    BY DEF AnswerInv, Spare
  <2>2. position \in Nat
    BY DEF IInv, InboxInv
  <2> TAKE n \in 1..Len(arrived)
  <2>3. PICK a : a = arrived[n]
    OBVIOUS
  <2>4. /\ Awaited(a) /\ Taken(a)
        /\ a.upto \in Nat /\ a.read \in Nat /\ a.at \in Nat
    BY <2>3 DEF AnswerInv, Answering, StreamInv
  <2>5. a.doc.parses /\ a.doc.gate => ~(a.upto <= position)
    BY <2>1, <2>4, Zenon DEF Taken
  <2>6. ASSUME a.upto > position
        PROVE  Late(a)
    BY <2>1, <2>2, <2>4, <2>6, LateIfAwaited
  <2>7. ~(a.upto <= position) => a.upto > position
    BY <2>2, <2>4, EarlierOrLater, Zenon
  <2> QED
    BY <2>3, <2>5, <2>6, <2>7, Zenon
<1> QED
  BY <1>1, Invariant, Answered, PTL
=============================================================================
