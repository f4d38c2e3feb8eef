----------------------------- MODULE MqttProofs -----------------------------
(* Theorems about the connection, for every length of the wire, and any    *)
(* number of lost connections, deaths and settings.                        *)
EXTENDS Mqtt, TLAPS

Sent == {"Init", "Scheduled!", "START!", "RUNNING", "END!"}

(* What a publish does to the wire: it gains the status, or the status is   *)
(* lost.                                                                    *)
LEMMA Publish ==
  ASSUME NEW m \in Sent, mqtt_pub(m), wire \in Seq(Sent)
  PROVE  /\ wire' \in Seq(Sent) /\ lost' \in BOOLEAN
         /\ Len(wire') >= Len(wire)
         /\ \/ link = "up" /\ wire' = Append(wire, m) /\ lost' = FALSE
            \/ link # "up" /\ wire' = wire /\ lost' = TRUE
<1>1. pubmsg(m).payload = m
  BY DEF pubmsg
<1>2. Append(wire, m) \in Seq(Sent) /\ Len(Append(wire, m)) >= Len(wire)
  OBVIOUS
<1>3. \/ link = "up" /\ wire' = Append(wire, m) /\ lost' = FALSE
      \/ link # "up" /\ wire' = wire /\ lost' = TRUE
  BY <1>1 DEF mqtt_pub, MQTTClient_publishMessage
<1>4. wire' \in Seq(Sent) /\ Len(wire') >= Len(wire)
  <2>1. wire' = Append(wire, m) \/ wire' = wire
    BY <1>3
  <2>2. Len(wire) \in Nat
    OBVIOUS
  <2> QED BY <1>2, <2>1, <2>2
<1>5. lost' \in BOOLEAN
  BY <1>3
<1> QED BY <1>3, <1>4, <1>5

(* A connection keeps the beginning of what was under way.                  *)
LEMMA Connect ==
  ASSUME mqtt_create, wire \in Seq(Sent), lost \in BOOLEAN,
         subscribed \in BOOLEAN
  PROVE  /\ wire' \in Seq(Sent) /\ lost' \in BOOLEAN /\ subscribed' \in BOOLEAN
         /\ link' \in {"up", link}
         /\ \/ lost' = TRUE
            \/ wire' = wire /\ lost' = lost
         /\ old' = Len(wire') /\ mine' = FALSE /\ pc = "connect" /\ pc' = "init"
         /\ UNCHANGED <<status, pump, device, blind, refused, seen, inbox>>
<1>1. PICK rc \in Results : MQTTClient_connect(conn_opts, rc)
  BY DEF mqtt_create
<1>2. /\ old' = Len(wire') /\ mine' = FALSE /\ pc = "connect" /\ pc' = "init"
      /\ UNCHANGED <<status, pump, device, blind, refused, seen, inbox>>
  BY DEF mqtt_create, pin, settings
<1>3. CASE rc = MQTTCLIENT_SUCCESS
  <2>1. /\ link' = "up" /\ subscribed' \in BOOLEAN
        /\ \E n \in 0 .. Len(wire) :
             wire' = SubSeq(wire, 1, n) /\ lost' = (lost \/ n < Len(wire))
    BY <1>1, <1>3 DEF MQTTClient_connect, Resumed, AtMostOnce
  <2>2. PICK n \in 0 .. Len(wire) :
               wire' = SubSeq(wire, 1, n) /\ lost' = (lost \/ n < Len(wire))
    BY <2>1
  <2>3. wire' \in Seq(Sent)
    BY <2>2
  <2>4. lost' \in BOOLEAN
    BY <2>2
  <2>5. CASE n < Len(wire)
    BY <1>2, <2>1, <2>2, <2>3, <2>4, <2>5
  <2>6. CASE n = Len(wire)
    <3>1. wire' = wire
      BY <2>2, <2>6
    <3>2. ~ n < Len(wire)
      BY <2>6
    <3>3. lost' = lost
      BY <2>2, <3>2
    <3> QED BY <1>2, <2>1, <2>3, <2>4, <3>1, <3>3
  <2>7. n < Len(wire) \/ n = Len(wire)
    BY <2>2
  <2> QED BY <2>5, <2>6, <2>7
<1>4. CASE rc # MQTTCLIENT_SUCCESS
  BY <1>1, <1>2, <1>4 DEF MQTTClient_connect
<1> QED BY <1>3, <1>4

(* The steps of the thread, by what they do to the statuses.                *)
LEMMA AnnounceStep ==
  ASSUME Announce
  PROVE  /\ status' \in {"Scheduled!", "START!", "RUNNING"} /\ pump' = pump
         /\ mqtt_pub(status') /\ pc = "loop"
         /\ UNCHANGED <<pc, device, blind, link, subscribed, refused, old, seen,
                        mine, inbox>>
BY DEF Announce, Promise!Announce, session, settings

LEMMA PumpStep ==
  ASSUME MotorOn \/ MotorOff, pump \in {0, 1}, device \in BOOLEAN
  PROVE  /\ status' = status /\ device' = device /\ pump' \in {0, 1}
         /\ pc \in {"loop", "running"} /\ pc' \in {"running", "end"}
         /\ UNCHANGED <<link, subscribed, refused, wire, old, seen, lost, mine,
                        inbox>>
BY DEF MotorOn, MotorOff, Ioctl, session, onlooker, settings

LEMMA EndStep ==
  ASSUME End
  PROVE  /\ status' = "END!" /\ mqtt_pub("END!") /\ pc = "end" /\ pc' = "loop"
         /\ UNCHANGED <<pump, device, blind, link, subscribed, refused, old, seen,
                        mine, inbox>>
BY DEF End, pin, session, settings

LEMMA InitStep ==
  ASSUME PubInit
  PROVE  /\ status' = "Init" /\ mqtt_pub("Init") /\ pc = "init" /\ pc' = "sub"
         /\ UNCHANGED <<pump, device, blind, link, subscribed, refused, old, seen,
                        mine, inbox>>
BY DEF PubInit, Promise!Restart, session, settings

LEMMA ReceiveStep ==
  ASSUME Receive
  PROVE  \/ Die
         \/ /\ inbox # <<>> /\ inbox' = Tail(inbox)
            /\ UNCHANGED <<thread, pin, session, onlooker>>
BY DEF Receive, mqtt_onReceiver, mqtt_onReceiverNull

LEMMA DeathIsTyped ==
  ASSUME TypeOK, Die PROVE TypeOK'
<1>1. <<>> \in Seq(Messages)
  OBVIOUS
<1>2. /\ pc' = "down" /\ link' = "none" /\ subscribed' = FALSE /\ inbox' = <<>>
      /\ device' = FALSE /\ refused' = FALSE
      /\ UNCHANGED <<status, pump, blind, wire, old, seen, lost, mine>>
  BY DEF Die, onlooker
<1> QED BY <1>1, <1>2 DEF TypeOK

(* Every variable keeps its type; only statuses are on the wire.            *)
THEOREM MqttTyping == Spec => []TypeOK
<1> USE DEF TypeOK
<1>1. Init => TypeOK
  <2>1. <<>> \in Seq(Sent) /\ <<>> \in Seq(Messages) /\ Len(<<>>) = 0
    OBVIOUS
  <2>2. Init => old \in 0 .. Len(wire)
    BY <2>1 DEF Init
  <2> QED BY <2>1, <2>2 DEF Init, Promise!Init, Sent
<1>2. TypeOK /\ [Next]_vars => TypeOK'
  <2> SUFFICES ASSUME TypeOK, [Next]_vars PROVE TypeOK'
    OBVIOUS
  <2>0. wire \in Seq(Sent) /\ inbox \in Seq(Messages) /\ old \in 0 .. Len(wire)
    BY DEF Sent
  <2>1. CASE Main \/ LoadModules
    BY <2>1 DEF Main, LoadModules, pin, session, onlooker, settings
  <2>2. CASE mqtt_create
    <3>1. Len(wire') \in Nat
      BY <2>0, <2>2, Connect
    <3> QED BY <2>0, <2>2, <3>1, Connect DEF Sent
  <2>3. ASSUME NEW m \in Sent, mqtt_pub(m), old' = old
        PROVE  wire' \in Seq(Sent) /\ lost' \in BOOLEAN /\ old' \in 0 .. Len(wire')
    <3>1. wire' \in Seq(Sent) /\ lost' \in BOOLEAN /\ Len(wire') >= Len(wire)
      BY <2>0, <2>3, Publish
    <3>2. old' \in 0 .. Len(wire')
      BY <2>0, <2>3, <3>1
    <3> QED BY <3>1, <3>2
  <2>4. CASE PubInit
    BY <2>3, <2>4, InitStep DEF Sent
  <2>5. CASE Announce
    <3>1. status' \in Sent /\ mqtt_pub(status') /\ old' = old
      BY <2>5, AnnounceStep DEF Sent
    <3>2. wire' \in Seq(Sent) /\ lost' \in BOOLEAN /\ old' \in 0 .. Len(wire')
      BY <2>3, <3>1
    <3> QED BY <2>5, <3>2, AnnounceStep DEF Sent
  <2>6. CASE End
    BY <2>3, <2>6, EndStep DEF Sent
  <2>7. CASE mqtt_sub
    <3>1. subscribed' \in BOOLEAN
      BY <2>7 DEF mqtt_sub, MQTTClient_subscribe
    <3>2. refused' \in BOOLEAN
      BY <2>7 DEF mqtt_sub, MQTTClient_subscribe
    <3> QED BY <2>7, <3>1, <3>2 DEF mqtt_sub, pin, onlooker, settings
  <2>8. CASE MotorOn \/ MotorOff
    <3>1. blind' \in BOOLEAN
      BY <2>8 DEF MotorOn, MotorOff
    <3> QED BY <2>8, <3>1, PumpStep
  <2>9. CASE Receive
    <3>1. CASE Die
      BY <3>1, DeathIsTyped
    <3>2. CASE inbox # <<>> /\ inbox' = Tail(inbox)
               /\ UNCHANGED <<thread, pin, session, onlooker>>
      BY <2>0, <3>2 DEF thread, pin, session, onlooker
    <3> QED BY <2>9, <3>1, <3>2, ReceiveStep
  <2>10. CASE Deliver
    <3>1. /\ wire # <<>> /\ wire' = Tail(wire)
          /\ old' = IF old = 0 THEN 0 ELSE old - 1
      BY <2>10 DEF Deliver
    <3>2. wire' \in Seq(Sent) /\ Len(wire') = Len(wire) - 1
      BY <2>0, <3>1
    <3>3. old' \in 0 .. Len(wire')
      BY <2>0, <3>1, <3>2
    <3>4. mine' \in BOOLEAN
      BY <2>10 DEF Deliver
    <3> QED BY <2>10, <3>2, <3>3, <3>4
            DEF Deliver, thread, pin, session, settings, Sent
  <2>11. CASE Rejoin
    <3>1. UNCHANGED <<status, pc, pump, device, blind, link, subscribed, refused,
                      wire, old, lost, inbox>>
      BY <2>11 DEF Rejoin, thread, pin, session, settings
    <3>2. mine' \in BOOLEAN
      BY <2>11 DEF Rejoin
    <3> QED BY <3>1, <3>2
  <2>12. CASE LoseLink
    <3>1. PICK n \in 0 .. Len(wire) :
                 wire' = SubSeq(wire, 1, n) /\ lost' = (lost \/ n < Len(wire))
      BY <2>12 DEF LoseLink, AtMostOnce
    <3>a. old' = IF Len(wire') < old THEN Len(wire') ELSE old
      BY <2>12 DEF LoseLink
    <3>2. wire' \in Seq(Sent) /\ Len(wire') = n
      BY <2>0, <3>1
    <3>3. inbox' \in Seq(Messages)
      <4>1. PICK k \in 0 .. Len(inbox) : inbox' = SubSeq(inbox, 1, k)
        BY <2>12 DEF LoseLink
      <4> QED BY <2>0, <4>1
    <3>4. lost' \in BOOLEAN
      BY <3>1
    <3>5. old' \in 0 .. Len(wire')
      BY <2>0, <3>a, <3>2
    <3> QED BY <2>12, <3>2, <3>3, <3>4, <3>5 DEF LoseLink, thread, pin, Sent
  <2>13. CASE Crash
    BY <2>13, DeathIsTyped DEF Crash
  <2>14. ASSUME NEW message \in Messages, Configure(message) PROVE TypeOK'
    <3>1. inbox' \in Seq(Messages)
      BY <2>0, <2>14 DEF Configure
    <3> QED BY <2>14, <3>1 DEF Configure, thread, pin, session, onlooker
  <2>15. CASE UNCHANGED vars
    BY <2>15 DEF vars, thread, pin, session, onlooker, settings
  <2> QED BY <2>1, <2>2, <2>4, <2>5, <2>6, <2>7, <2>8, <2>9, <2>10, <2>11,
             <2>12, <2>13, <2>14, <2>15 DEF Next, Step, Due, Others
<1> QED BY <1>1, <1>2, PTL DEF Spec

-----------------------------------------------------------------------------
(* The wire is a queue: unless the last status is lost, it is the last one  *)
(* on the wire or, when that is empty, the one the onlooker has got.  And   *)
(* "END!" is the status only while the pump is off, unless the motor_off of *)
(* its cycle went nowhere.                                                  *)
OrderInv ==
  /\ ~lost /\ wire # <<>> => wire[Len(wire)] = status
  /\ ~lost /\ wire = <<>> => seen \in {status, "none"}
  /\ (status = "END!" \/ pc = "end") /\ pump = 1 => blind

(* "END!", seen last and with nothing more to come, means that the pump is  *)
(* off, however often connections are lost and processes die: if the device *)
(* of the cycle that ended had opened.                                      *)
THEOREM EndIsOff == Spec => []EndMeansOff
<1> USE DEF OrderInv
<1>1. Init => OrderInv
  BY DEF Init, Promise!Init
<1>2. TypeOK /\ OrderInv /\ [Next]_vars => OrderInv'
  <2> SUFFICES ASSUME TypeOK, OrderInv, [Next]_vars PROVE OrderInv'
    OBVIOUS
  <2>0. wire \in Seq(Sent) /\ lost \in BOOLEAN /\ subscribed \in BOOLEAN
        /\ pump \in {0, 1} /\ device \in BOOLEAN
    BY DEF TypeOK, Sent
  <2>1. ASSUME NEW m \in Sent, mqtt_pub(m), status' = m, seen' = seen,
               (status' = "END!" \/ pc' = "end") /\ pump' = 1 => blind'
        PROVE  OrderInv'
    <3>1. CASE link = "up"
      <4>1. wire' = Append(wire, m) /\ lost' = FALSE
        BY <2>0, <2>1, <3>1, Publish
      <4>2. wire' # <<>> /\ wire'[Len(wire')] = m
        BY <2>0, <4>1
      <4> QED BY <2>1, <4>1, <4>2
    <3>2. CASE link # "up"
      BY <2>0, <2>1, <3>2, Publish
    <3> QED BY <3>1, <3>2
  <2>2. CASE Main \/ LoadModules \/ mqtt_sub
    BY <2>2 DEF Main, LoadModules, mqtt_sub, pin, onlooker
  <2>3. CASE mqtt_create
    BY <2>0, <2>3, Connect
  <2>4. CASE PubInit
    BY <2>1, <2>4, InitStep DEF Sent
  <2>5. CASE Announce
    <3>1. status' \in Sent /\ status' # "END!" /\ mqtt_pub(status')
          /\ seen' = seen /\ pc' = "loop"
      BY <2>5, AnnounceStep DEF Sent
    <3> QED BY <2>1, <3>1
  <2>6. CASE MotorOn
    BY <2>6 DEF MotorOn, onlooker
  <2>7. CASE MotorOff
    <3>1. pump' = 1 => blind'
      <4>1. CASE device
        <5>1. pump' = 0
          BY <2>7, <4>1 DEF MotorOff, Ioctl
        <5> QED BY <5>1
      <4>2. CASE ~device
        BY <2>7, <4>2 DEF MotorOff
      <4> QED BY <4>1, <4>2
    <3> QED BY <2>7, <3>1 DEF MotorOff, onlooker
  <2>8. CASE End
    BY <2>1, <2>8, EndStep DEF Sent
  <2>9. CASE Receive \/ Crash
    BY <2>9, ReceiveStep DEF Crash, Die, thread, pin, onlooker
  <2>10. CASE Deliver
    <3>1. wire' = Tail(wire) /\ seen' = wire[1] /\ wire # <<>>
          /\ UNCHANGED <<status, pc, pump, blind, lost>>
      BY <2>10 DEF Deliver, thread, pin
    <3>0. wire \in Seq(Sent) /\ wire # <<>> /\ wire' = Tail(wire)
      BY <2>0, <3>1
    <3>2. CASE Len(wire) = 1
      <4>1. wire' = <<>>
        BY <3>0, <3>2
      <4> QED BY <3>1, <3>2, <4>1
    <3>3. CASE Len(wire) > 1
      <4>1. Len(wire') = Len(wire) - 1 /\ wire' # <<>>
        BY <3>0, <3>3
      <4>2. wire'[Len(wire')] = wire[Len(wire)]
        BY <3>0, <3>3, <4>1
      <4> QED BY <3>1, <4>1, <4>2
    <3>4. Len(wire) >= 1 /\ Len(wire') = Len(wire) - 1
      BY <3>0
    <3>5. Len(wire) \in Nat
      BY <3>0
    <3>6. Len(wire) = 1 \/ Len(wire) > 1
      BY <3>4, <3>5
    <3> QED BY <3>2, <3>3, <3>6
  <2>11. CASE Rejoin
    BY <2>11 DEF Rejoin, thread, pin, pubmsg
  <2>12. CASE LoseLink
    <3>1. PICK n \in 0 .. Len(wire) :
                 wire' = SubSeq(wire, 1, n) /\ lost' = (lost \/ n < Len(wire))
      BY <2>12 DEF LoseLink, AtMostOnce
    <3>2. UNCHANGED <<status, pc, pump, blind, seen>>
      BY <2>12 DEF LoseLink, thread, pin
    <3>3. CASE n < Len(wire)
      BY <3>1, <3>2, <3>3
    <3>4. CASE n = Len(wire)
      <4>1. wire' = wire
        BY <2>0, <3>1, <3>4
      <4>2. lost' <=> lost
        <5>1. ~ n < Len(wire)
          BY <2>0, <3>4
        <5> QED BY <3>1, <5>1
      <4> QED BY <3>2, <4>1, <4>2
    <3> QED BY <3>1, <3>3, <3>4
  <2>13. ASSUME NEW message \in Messages, Configure(message) PROVE OrderInv'
    BY <2>13 DEF Configure, thread, pin, onlooker
  <2>14. CASE UNCHANGED vars
    BY <2>14 DEF vars, thread, pin, onlooker
  <2> QED BY <2>2, <2>3, <2>4, <2>5, <2>6, <2>7, <2>8, <2>9, <2>10, <2>11,
             <2>12, <2>13, <2>14 DEF Next, Step, Due, Others
<1>3. OrderInv => EndMeansOff
  BY DEF EndMeansOff
<1> QED BY <1>1, <1>2, <1>3, MqttTyping, PTL DEF Spec

-----------------------------------------------------------------------------
(* What is under way when a connection begins is not its own; before the    *)
(* subscription nothing but "Init" has gone over it.                        *)
SessionInv ==
  /\ pc \in {"down", "main", "connect"} => link = "none"
  /\ pc = "init" /\ link = "up" => old = Len(wire) /\ ~mine
  /\ pc = "sub" /\ link = "up" =>
       /\ \A i \in 1 .. Len(wire) : i > old => wire[i] = "Init"
       /\ mine => seen \in {"none", "Init"}
  /\ pc \in {"loop", "running", "end"} /\ link = "up" => subscribed \/ refused

(* A setting that answers any status of the present connection but "Init"   *)
(* is received while that is up, unless the subscription was refused.       *)
THEOREM AnswersHeard == Spec => []AnswersAreHeard
<1> USE DEF SessionInv
<1>1. Init => SessionInv
  BY DEF Init
<1>2. TypeOK /\ SessionInv /\ [Next]_vars => SessionInv'
  <2> SUFFICES ASSUME TypeOK, SessionInv, [Next]_vars PROVE SessionInv'
    OBVIOUS
  <2>0. wire \in Seq(Sent) /\ lost \in BOOLEAN /\ subscribed \in BOOLEAN
        /\ pump \in {0, 1} /\ device \in BOOLEAN
    BY DEF TypeOK, Sent
  <2>a. wire \in Seq(Sent) /\ old \in 0 .. Len(wire)
    BY DEF TypeOK, Sent
  <2>1. CASE Main \/ LoadModules
    BY <2>1 DEF Main, LoadModules, session
  <2>2. CASE mqtt_create
    BY <2>0, <2>2, Connect
  <2>3. CASE PubInit
    <3>1. CASE link = "up"
      <4>1. old = Len(wire) /\ ~mine
        BY <2>3, <3>1, InitStep
      <4>2. wire' = Append(wire, "Init")
        BY <2>0, <2>3, <3>1, InitStep, Publish DEF Sent
      <4>3. \A i \in 1 .. Len(wire') : i > old => wire'[i] = "Init"
        BY <2>a, <4>1, <4>2
      <4> QED BY <2>3, <4>1, <4>3, InitStep
    <3>2. CASE link # "up"
      BY <2>3, <3>2, InitStep
    <3> QED BY <3>1, <3>2
  <2>4. CASE mqtt_sub
    BY <2>4 DEF mqtt_sub, MQTTClient_subscribe
  <2>5. CASE Announce
    BY <2>5, AnnounceStep
  <2>6. CASE MotorOn \/ MotorOff
    <3>1. pc \in {"loop", "running"} /\ pc' \in {"running", "end"}
          /\ UNCHANGED <<link, subscribed, refused>>
      BY <2>0, <2>6, PumpStep
    <3> QED BY <3>1
  <2>7. CASE End
    BY <2>7, EndStep
  <2>8. CASE Die
    BY <2>8 DEF Die
  <2>9. CASE UNCHANGED <<thread, session, onlooker>>
    BY <2>9 DEF thread, session, onlooker
  <2>10. CASE Deliver
    <3>0. wire \in Seq(Sent) /\ wire # <<>> /\ wire' = Tail(wire)
      BY <2>a, <2>10 DEF Deliver
    <3>1. seen' = wire[1] /\ old' = IF old = 0 THEN 0 ELSE old - 1
      BY <2>10 DEF Deliver
    <3>2. mine' <=> old = 0
      BY <2>10 DEF Deliver
    <3>3. UNCHANGED <<pc, link, subscribed, refused>>
      BY <2>10 DEF Deliver, thread, session
    <3>4. Len(wire) >= 1 /\ Len(wire') = Len(wire) - 1
      BY <3>0
    <3>5. CASE pc = "init" /\ link = "up"
      <4>1. old = Len(wire)
        BY <3>5
      <4>2. old' = Len(wire') /\ old # 0
        BY <2>a, <3>1, <3>4, <4>1
      <4> QED BY <3>2, <3>3, <3>5, <4>2
    <3>6. CASE pc = "sub" /\ link = "up"
      <4>1. \A i \in 1 .. Len(wire) : i > old => wire[i] = "Init"
        BY <3>6
      <4>2. \A i \in 1 .. Len(wire') : wire'[i] = wire[i + 1]
        BY <3>0, <3>4
      <4>3. \A i \in 1 .. Len(wire') : i > old' => wire'[i] = "Init"
        <5>1. TAKE i \in 1 .. Len(wire')
        <5>2. HAVE i > old'
        <5>3. i + 1 \in 1 .. Len(wire)
          BY <3>4, <5>1
        <5>4. i + 1 > old
          <6>1. CASE old = 0
            BY <5>1, <6>1
          <6>2. CASE old # 0
            BY <2>a, <3>1, <5>1, <5>2, <6>2
          <6> QED BY <6>1, <6>2
        <5> QED BY <4>1, <4>2, <5>1, <5>3, <5>4
      <4>4. mine' => seen' = "Init"
        <5>1. HAVE mine'
        <5>2. old = 0
          BY <3>2, <5>1
        <5>3. 1 \in 1 .. Len(wire) /\ 1 > old
          BY <2>a, <3>4, <5>2
        <5> QED BY <3>1, <4>1, <5>3
      <4> QED BY <3>3, <3>6, <4>3, <4>4
    <3>7. CASE pc \notin {"init", "sub"} \/ link # "up"
      BY <3>3, <3>7
    <3> QED BY <3>5, <3>6, <3>7
  <2>11. CASE Rejoin
    BY <2>11 DEF Rejoin, thread, session, pubmsg
  <2>12. CASE LoseLink
    BY <2>12 DEF LoseLink, thread
  <2>13. CASE UNCHANGED vars
    BY <2>13 DEF vars, thread, session, onlooker
  <2> QED BY <2>1, <2>2, <2>3, <2>4, <2>5, <2>6, <2>7, <2>8, <2>9, <2>10, <2>11,
             <2>12, <2>13, ReceiveStep
          DEF Next, Step, Due, Others, Crash, Configure
<1>3. TypeOK /\ SessionInv => AnswersAreHeard
  BY DEF TypeOK, AnswersAreHeard
<1> QED BY <1>1, <1>2, <1>3, MqttTyping, PTL DEF Spec
=============================================================================
