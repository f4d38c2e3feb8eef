-------------------------------- MODULE Mqtt --------------------------------
(***************************************************************************)
(* The sprinkler's connection to the broker (mqtt_create, mqtt_pub and     *)
(* mqtt_sub of daemon/util.c, sprinkler_init and mqtt_onReceiver of        *)
(* daemon/sprinkler.c), with the two programs behind the broker: an        *)
(* onlooker, who follows the status topic, and the server, which sends     *)
(* settings.  What the thread announces is Irrigation.tla's.  No result of *)
(* the library is looked at, and nothing reconnects.                       *)
(***************************************************************************)
EXTENDS Settings

CONSTANTS
  Messages,             \* the server's messages
  DefaultRunningTime,   \*                                       (code: 50)
  MaxWire,              \* statuses on the way to the onlooker; a publish waits
  MaxConfigs, MaxLosses, MaxDeaths        \* bounds on what the others do

ASSUME MqttAssumption ==
  /\ DefaultRunningTime \in Int
  /\ MaxWire \in Nat \ {0} /\ MaxConfigs \in Nat
  /\ MaxLosses \in Nat /\ MaxDeaths \in Nat

VARIABLES
  status, pc,          \* the last status published; the sprinkler thread
  pump, device,        \* the pin; did the process's device open?
  blind,               \* history: the last motor_off did not reach the pin
  link,                \* its connection: "none", "up", "lost"
  subscribed, refused, \* does the broker have the subscription? or not, though
                       \* the connection was up?
  wire, old,           \* statuses under way; so many are of earlier connections
  seen,                \* the last status the onlooker has got
  lost,                \* history: the last status will not arrive
  mine,                \* history: seen came over the present connection
  inbox, running_time, \* settings under way; sprinkler.c's variable
  heap,                \* what freed buffers hold
  asked,               \* history: the value of the last running_time message
  configs, losses, deaths

thread   == <<status, pc>>
pin      == <<pump, device, blind>>
session  == <<link, subscribed, refused>>
onlooker == <<wire, old, seen, lost, mine>>
settings == <<inbox, running_time, heap, asked, configs>>
vars     == <<thread, pin, session, onlooker, settings, losses, deaths>>

Promise == INSTANCE Irrigation

(* What MQTTClient_connect returns: the library's codes, and the broker's.  *)
MQTTCLIENT_SUCCESS == 0
ErrorCodes         == -9 .. -1
Refusals           == 1 .. 5
Results            == {MQTTCLIENT_SUCCESS} \cup ErrorCodes \cup Refusals

conn_opts       == [keepAliveInterval |-> 0, cleansession |-> 1]
pubmsg(payload) == [payload |-> payload, qos |-> 0, retained |-> 0]

Init ==
  /\ Promise!Init
  /\ pc = "down" /\ device = FALSE /\ blind = FALSE
  /\ link = "none" /\ subscribed = FALSE /\ refused = FALSE
  /\ wire = <<>> /\ old = 0 /\ seen = "none" /\ lost = FALSE /\ mine = FALSE
  /\ inbox = <<>> /\ running_time = DefaultRunningTime /\ heap = {}
  /\ asked = DefaultRunningTime
  /\ configs = 0 /\ losses = 0 /\ deaths = 0

-----------------------------------------------------------------------------
(* The library. *)

(* QoS 0: nobody keeps a message.  When a connection ends, what the broker  *)
(* has read of it is delivered, and the rest, or all of it, is gone.        *)
AtMostOnce ==
  \E n \in 0 .. Len(wire) :
    wire' = SubSeq(wire, 1, n) /\ lost' = (lost \/ n < Len(wire))

(* A clean session forgets the subscriptions of the last one.               *)
Resumed(options) == subscribed /\ options.cleansession = 0

(* The broker ends another connection of the client id "sprinkler", an      *)
(* earlier process's.                                                       *)
MQTTClient_connect(options, rc) ==
  IF rc = MQTTCLIENT_SUCCESS
  THEN /\ link' = "up"
       /\ subscribed' = Resumed(options)
       /\ AtMostOnce
  ELSE UNCHANGED <<link, subscribed, wire, lost>>

(* On the wire or nowhere. *)
MQTTClient_publishMessage(message) ==
  IF link = "up"
  THEN /\ Len(wire) < MaxWire
       /\ wire' = Append(wire, message.payload) /\ lost' = FALSE
  ELSE lost' = TRUE /\ UNCHANGED wire

(* The broker may refuse, or not answer. *)
MQTTClient_subscribe ==
  /\ subscribed' \in IF link = "up" THEN BOOLEAN ELSE {FALSE}
  /\ refused' = (link = "up" /\ ~subscribed')

(* What the heap is left with when a message and its topic's name are freed. *)
MQTTClient_freeMessage(payload) == Freed(payload)
MQTTClient_free(name)           == Freed(name)

-----------------------------------------------------------------------------
(* The sprinkler thread: main, sprinkler_init, and the states. *)

mqtt_pub(payload) == MQTTClient_publishMessage(pubmsg(payload))

(* main connects for itself, with no receiver, and publishes "Daemon Start" *)
(* on a topic of its own: whatever becomes of that, nobody here follows it, *)
(* but a publish that hangs keeps the sprinkler from being started.         *)
Main ==
  /\ pc = "down" /\ pc' = "main"
  /\ UNCHANGED <<status, pin, session, onlooker, settings, losses, deaths>>

(* It goes on to open the device, whose result nobody looks at, and to      *)
(* create the threads; then it idles.                                       *)
LoadModules ==
  /\ pc = "main" /\ pc' = "connect" /\ device' \in BOOLEAN
  /\ UNCHANGED <<status, pump, blind, session, onlooker, settings, losses,
                 deaths>>

mqtt_create ==
  /\ pc = "connect" /\ pc' = "init"
  /\ \E rc \in Results : MQTTClient_connect(conn_opts, rc)
  /\ old' = Len(wire') /\ mine' = FALSE
  /\ UNCHANGED <<status, pin, refused, seen, settings, losses, deaths>>

PubInitEarly ==                          \* mutant: publishes the old status
  /\ pc = "init" /\ pc' = "sub"
  /\ Promise!Restart /\ mqtt_pub(status)
  /\ UNCHANGED <<device, blind, session, old, seen, mine, settings, losses,
                 deaths>>

PubInitNoSub ==                          \* mutant: never subscribes
  /\ pc = "init" /\ pc' = "loop"
  /\ Promise!Restart /\ mqtt_pub("Init")
  /\ UNCHANGED <<device, blind, session, old, seen, mine, settings, losses,
                 deaths>>

PubInit ==
  /\ pc = "init" /\ pc' = "sub"
  /\ Promise!Restart /\ mqtt_pub("Init")
  /\ UNCHANGED <<device, blind, session, old, seen, mine, settings, losses,
                 deaths>>

mqtt_sub ==
  /\ pc = "sub" /\ pc' = "loop" /\ MQTTClient_subscribe
  /\ UNCHANGED <<status, pin, link, onlooker, settings, losses, deaths>>

(* sprinkler_scheduled and sprinkler_start. *)
Announce ==
  /\ pc = "loop" /\ Promise!Announce /\ mqtt_pub(status')
  /\ UNCHANGED <<pc, device, blind, session, old, seen, mine, settings, losses,
                 deaths>>

(* ioctl(farm_fd, MOTOR_ON / MOTOR_OFF): fails, unseen, without a device. *)
Ioctl(level) == pump' = IF device THEN level ELSE pump

MotorOn ==
  /\ pc = "loop" /\ status = "RUNNING" /\ pc' = "running" /\ Ioctl(1)
  /\ UNCHANGED <<status, device, blind, session, onlooker, settings, losses,
                 deaths>>

EndBeforeOff ==                               \* mutant: publishes first
  /\ pc = "running" /\ pc' = "end"
  /\ status' = "END!" /\ mqtt_pub("END!")
  /\ UNCHANGED <<pin, session, old, seen, mine, settings, losses, deaths>>

(* sprinkler_end. *)
MotorOff ==
  /\ pc = "running" /\ pc' = "end" /\ Ioctl(0) /\ blind' = ~device
  /\ UNCHANGED <<status, device, session, onlooker, settings, losses, deaths>>

EndSilent ==                                         \* mutant: no mqtt_pub
  /\ pc = "end" /\ status' = "END!" /\ pc' = "loop"
  /\ UNCHANGED <<pin, session, onlooker, settings, losses, deaths>>

End ==
  /\ pc = "end" /\ status' = "END!" /\ mqtt_pub("END!") /\ pc' = "loop"
  /\ UNCHANGED <<pin, session, old, seen, mine, settings, losses, deaths>>

(* The thread goes on by itself, but for the schedule that starts a cycle. *)
Due  == status \in {"Init", "END!"} /\ Announce
Step == \/ LoadModules \/ mqtt_create \/ PubInit \/ mqtt_sub
        \/ (Announce /\ status \notin {"Init", "END!"})
        \/ MotorOn \/ MotorOff \/ End

-----------------------------------------------------------------------------
(* The receiver thread and the others. *)

Die ==
  /\ pc' = "down" /\ device' = FALSE
  /\ link' = "none" /\ subscribed' = FALSE /\ refused' = FALSE /\ inbox' = <<>>
  /\ running_time' = DefaultRunningTime /\ heap' = {}
  /\ asked' = DefaultRunningTime
  /\ UNCHANGED <<status, pump, blind, onlooker, configs>>

(* get_setting, strcmp and atoi; the value that was asked for is the one    *)
(* of the message alone.                                                    *)
Take(payload, setting) ==
  IF setting.key = <<"running_time">>
  THEN /\ running_time' = atoi(setting.value)
       /\ LET sent == get_setting(payload, <<>>)
          IN  IF sent = {} THEN UNCHANGED asked
              ELSE \E own \in sent : asked' = atoi(own.value)
  ELSE UNCHANGED <<running_time, asked>>

mqtt_topic(dev_name, topic) == dev_name \o <<"/">> \o topic
topicName == mqtt_topic(<<"farm">>, <<"sprinkler", "/", "con", "fig">>)

(* mqtt_onReceiver.  A missing word makes strlen(NULL) of it.  get_setting  *)
(* frees its buffer, and the receiver the message and the topic's name; the *)
(* words, of another key not freed, and of this one freed, leave nothing    *)
(* but links.                                                               *)
mqtt_onReceiver(payload, earlier) ==
  LET taken == get_setting(payload, earlier) IN
  IF taken = {} THEN Die
  ELSE /\ \E setting \in taken : Take(payload, setting)
       /\ inbox' = Tail(inbox)
       /\ heap' = heap \cup {Freed(Memory(payload, earlier)),
                             MQTTClient_freeMessage(payload),
                             MQTTClient_free(topicName)}
       /\ UNCHANGED <<thread, pin, session, onlooker, configs>>

(* get_setting returns NULL for a payload that is NULL, of no length.       *)
mqtt_onReceiverNull(payload) ==
  /\ payload = <<>> /\ inbox' = Tail(inbox)
  /\ heap' = heap \cup {MQTTClient_free(topicName)}
  /\ UNCHANGED <<thread, pin, session, onlooker, running_time, asked, configs>>

(* On a thread of its own the library calls what mqtt_create registered.    *)
Receive ==
  /\ pc # "down" /\ inbox # <<>>
  /\ \/ \E earlier \in heap \cup {<<>>} : mqtt_onReceiver(Head(inbox), earlier)
     \/ mqtt_onReceiverNull(Head(inbox))
  /\ UNCHANGED <<losses, deaths>>

Deliver ==
  /\ wire # <<>> /\ wire' = Tail(wire) /\ seen' = Head(wire)
  /\ mine' = (old = 0) /\ old' = IF old = 0 THEN 0 ELSE old - 1
  /\ UNCHANGED <<thread, pin, session, lost, settings, losses, deaths>>

(* An onlooker that (re)joins gets what was retained, which is nothing.     *)
Rejoin ==
  /\ seen' = IF pubmsg(status).retained = 1 THEN status ELSE "none"
  /\ mine' = FALSE
  /\ UNCHANGED <<thread, pin, session, wire, old, lost, settings, losses, deaths>>

(* The server sends a setting; the broker keeps it for nobody.              *)
Configure(message) ==
  /\ configs < MaxConfigs /\ configs' = configs + 1
  /\ inbox' = IF subscribed THEN Append(inbox, message) ELSE inbox
  /\ UNCHANGED <<thread, pin, session, onlooker, running_time, heap, asked,
                 losses, deaths>>

(* The connection is gone: the network, the broker, or another daemon that  *)
(* connects as "sprinkler".  Nobody is told: there is no callback, no ping  *)
(* (an interval of 0) and no last will.                                     *)
LoseLink ==
  /\ link = "up" /\ losses < MaxLosses /\ losses' = losses + 1
  /\ link' = "lost" /\ subscribed' = FALSE
  /\ AtMostOnce /\ old' = IF Len(wire') < old THEN Len(wire') ELSE old
  /\ \E k \in 0 .. Len(inbox) : inbox' = SubSeq(inbox, 1, k)
  /\ UNCHANGED <<thread, pin, refused, seen, mine, running_time, heap, asked,
                 configs, deaths>>

Crash ==
  /\ pc # "down" /\ deaths < MaxDeaths /\ deaths' = deaths + 1
  /\ Die /\ UNCHANGED losses

Others == \/ Rejoin \/ LoseLink \/ Crash
          \/ \E message \in Messages : Configure(message)

Next == Main \/ Step \/ Due \/ Receive \/ Deliver \/ Others

Spec == Init /\ [][Next]_vars

(* The threads of the daemon are scheduled and their publishes return, the  *)
(* broker delivers, somebody starts the daemon again.  The receiver need    *)
(* not run.                                                                 *)
FairSpec == Spec /\ WF_vars(Main) /\ WF_vars(Step) /\ WF_vars(Deliver)

-----------------------------------------------------------------------------
TypeOK ==
  /\ pc \in {"down", "main", "connect", "init", "sub", "loop", "running", "end"}
  /\ status \in {"none", "Init", "Scheduled!", "START!", "RUNNING", "END!"}
  /\ pump \in {0, 1} /\ device \in BOOLEAN /\ blind \in BOOLEAN
  /\ link \in {"none", "up", "lost"} /\ subscribed \in BOOLEAN
  /\ refused \in BOOLEAN
  /\ wire \in Seq({"Init", "Scheduled!", "START!", "RUNNING", "END!"})
  /\ old \in 0 .. Len(wire) /\ lost \in BOOLEAN /\ mine \in BOOLEAN
  /\ inbox \in Seq(Messages)

(* "END!" means that the pump is off, for whoever has seen it last and has  *)
(* nothing more to come: unless the last status was lost, or the motor_off  *)
(* of that cycle had no device to reach.  A process that died with the pump *)
(* on, one that started since, and statuses of an earlier connection that   *)
(* arrive late are no exception.                                            *)
EndMeansOff == seen = "END!" /\ pump = 1 => wire # <<>> \/ lost \/ blind

(* A setting that answers a status of the present connection is received    *)
(* while that connection is up: unless the status was "Init", which comes   *)
(* before the subscription, or the subscription was refused, unseen.        *)
AnswersAreHeard ==
  mine /\ link = "up" /\ seen \notin {"none", "Init"} => subscribed \/ refused

(* Whoever sees "RUNNING" sees something else later, if only the "Init" of  *)
(* the next process: unless the last status is lost, for good when nobody   *)
(* restarts the daemon.                                                     *)
RunningEnds == seen = "RUNNING" ~> seen # "RUNNING" \/ lost

(* util.c:78-80: "SET running_time 30" gives "[1]: 30".                     *)
SettingAsSent == running_time = asked
=============================================================================
