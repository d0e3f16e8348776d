-------------------------- MODULE DeploymentProofs --------------------------
(***************************************************************************)
(* What the deployment script remembers is true, for every list of assets  *)
(* and oracle configurations and any number of failures at any task.       *)
(***************************************************************************)
EXTENDS Deployment, TLAPS

-----------------------------------------------------------------------------
(***************************************************************************)
(* The script                                                              *)
(***************************************************************************)

Joins(s, t, u, S) ==
    /\ u \in Seq(S)
    /\ Len(u) = Len(s) + Len(t)
    /\ \A i \in 1 .. Len(s) : u[i] = s[i]
    /\ \A i \in 1 .. Len(t) : u[i + Len(s)] = t[i]

LEMMA ConcatJoins ==
    ASSUME NEW S, NEW s \in Seq(S), NEW t \in Seq(S)
    PROVE  Joins(s, t, s \o t, S)
  BY DEF Joins

TasksOf(kind, names, S, T, seq) ==
    /\ seq \in Seq(T)
    /\ Len(seq) \in Nat
    /\ Len(seq) = Len(names)
    /\ \A i \in 1 .. Len(seq) : seq[i] = [kind |-> kind, name |-> names[i]]
    /\ \A i \in 1 .. Len(seq) : names[i] \in S

LEMMA TasksAre ==
    ASSUME NEW kind, NEW S, NEW names \in Seq(S), NEW T,
           \A name \in S : [kind |-> kind, name |-> name] \in T
    PROVE  TasksOf(kind, names, S, T, Tasks(kind, names))
  <1>1. /\ Len(names) \in Nat
        /\ DOMAIN names = 1 .. Len(names)
        /\ \A i \in 1 .. Len(names) : names[i] \in S
    OBVIOUS
  <1>2. Tasks(kind, names) \in Seq(T)
    BY DEF Tasks
  <1>3. DOMAIN Tasks(kind, names) = 1 .. Len(names)
    BY <1>1 DEF Tasks
  <1>4. \A i \in 1 .. Len(names) :
            Tasks(kind, names)[i] = [kind |-> kind, name |-> names[i]]
    BY <1>1 DEF Tasks
  <1>5. /\ Len(Tasks(kind, names)) \in Nat
        /\ DOMAIN Tasks(kind, names) = 1 .. Len(Tasks(kind, names))
    BY <1>2
  <1>6. Len(Tasks(kind, names)) = Len(names)
    BY <1>1, <1>3, <1>5
  <1> QED
    BY <1>1, <1>2, <1>4, <1>6 DEF TasksOf

LEMMA TasksHave ==
    ASSUME NEW kind, NEW S, NEW T, NEW names, NEW seq, TasksOf(kind, names, S, T, seq)
    PROVE  /\ Len(seq) \in Nat
           /\ \A i \in 1 .. Len(seq) : seq[i].kind = kind /\ seq[i].name \in S
  <1>1. /\ Len(seq) \in Nat
        /\ \A i \in 1 .. Len(seq) : seq[i] = [kind |-> kind, name |-> names[i]]
        /\ \A i \in 1 .. Len(seq) : names[i] \in S
    BY Zenon DEF TasksOf
  <1>2. ASSUME NEW i \in 1 .. Len(seq)
        PROVE  seq[i].kind = kind /\ seq[i].name \in S
    <2>1. seq[i] = [kind |-> kind, name |-> names[i]] /\ names[i] \in S
      BY <1>1, Zenon
    <2>2. seq[i].kind = kind /\ seq[i].name = names[i]
      <3>1. \A r, k, n : r = [kind |-> k, name |-> n] => r.kind = k /\ r.name = n
        OBVIOUS
      <3> QED
        BY <2>1, <3>1, Zenon
    <2> QED
      BY <2>1, <2>2, Zenon
  <1> QED
    BY <1>1, <1>2, Zenon

Handed == ContractName \cup {"incentives", "rewards-collector", "swapper"}

AnyTask ==
    [kind : {"upload", "instantiate", "set_address", "init_asset",
             "set_price_source", "smoke_test", "handover"},
     name : Handed \cup SmokeTest \cup AddressType \cup ElementsOf(Assets)
                \cup ElementsOf(OracleConfigs)]

\* A task that follows those of the configuration.
LateTask(task) ==
    \/ task.kind = "smoke_test" /\ task.name \in SmokeTest
    \/ task.kind = "handover" /\ task.name \in Handed

\* What the actions use of the task at place i.
TaskOK(i) ==
    LET task == Script[i]
    IN  \/ task.kind = "upload" /\ task.name \in ContractName /\ i < 4
        \/ /\ task.kind = "instantiate"
           /\ \/ i = 4 /\ task.name = "address-provider"
              \/ i = 5 /\ task.name = "lending"
              \/ i = 6 /\ task.name = "oracle"
        \/ task.kind = "set_address" /\ task.name \in AddressType /\ i > 6
        \/ task.kind = "init_asset" /\ task.name \in ElementsOf(Assets) /\ i > 6
        \/ task.kind = "set_price_source" /\ task.name \in ElementsOf(OracleConfigs) /\ i > 6
        \/ task.kind = "smoke_test" /\ task.name \in SmokeTest /\ i > 6
        \/ task.kind = "handover" /\ task.name \in Handed /\ i > 6

LEMMA LateTasks ==
    /\ SmokeTests \o Handover \in Seq(AnyTask)
    /\ Len(SmokeTests \o Handover) \in Nat
    /\ \A i \in 1 .. Len(SmokeTests \o Handover) : LateTask((SmokeTests \o Handover)[i])
  <1> DEFINE Late(seq) ==
                /\ seq \in Seq(AnyTask)
                /\ Len(seq) \in Nat
                /\ \A i \in 1 .. Len(seq) : LateTask(seq[i])
  <1>1. Late(<<>>)
    OBVIOUS
  <1>2. Late(SmokeTests)
    <2>1. PICK n : n = <<"deposit", "borrow", "repay", "withdraw">>
      OBVIOUS
    <2>2. n \in Seq(SmokeTest)
      BY <2>1 DEF SmokeTest
    <2>3. \A x \in SmokeTest : [kind |-> "smoke_test", name |-> x] \in AnyTask
      BY DEF AnyTask
    <2>4. TasksOf("smoke_test", n, SmokeTest, AnyTask, Tasks("smoke_test", n))
      BY <2>2, <2>3, TasksAre
    <2>5. Late(Tasks("smoke_test", n))
      <3>1. Tasks("smoke_test", n) \in Seq(AnyTask)
        BY <2>4, Zenon DEF TasksOf
      <3> QED
        BY <2>4, <3>1, TasksHave, Zenon DEF LateTask
    <2> QED
      BY <1>1, <2>1, <2>5, Zenon DEF SmokeTests
  <1>3. Late(Handover)
    <2>1. PICK n : n = <<"incentives", "lending", "oracle", "rewards-collector", "swapper",
                         "address-provider">>
      OBVIOUS
    <2>2. n \in Seq(Handed)
      BY <2>1 DEF Handed, ContractName
    <2>3. \A x \in Handed : [kind |-> "handover", name |-> x] \in AnyTask
      BY DEF AnyTask
    <2>4. TasksOf("handover", n, Handed, AnyTask, Tasks("handover", n))
      BY <2>2, <2>3, TasksAre
    <2>5. Late(Tasks("handover", n))
      <3>1. Tasks("handover", n) \in Seq(AnyTask)
        BY <2>4, Zenon DEF TasksOf
      <3> QED
        BY <2>4, <3>1, TasksHave, Zenon DEF LateTask
    <2> QED
      BY <1>1, <2>1, <2>5, Zenon DEF Handover
  <1>4. ASSUME NEW s, NEW t, Late(s), Late(t)
        PROVE  Late(s \o t)
    <2>1. Joins(s, t, s \o t, AnyTask)
      BY <1>4, ConcatJoins
    <2>2. /\ s \o t \in Seq(AnyTask)
          /\ Len(s \o t) = Len(s) + Len(t)
          /\ \A i \in 1 .. Len(s) : (s \o t)[i] = s[i]
          /\ \A i \in 1 .. Len(t) : (s \o t)[i + Len(s)] = t[i]
      BY <2>1, Zenon DEF Joins
    <2>3. ASSUME NEW i \in 1 .. Len(s \o t)
          PROVE  LateTask((s \o t)[i])
      <3>1. CASE i \in 1 .. Len(s)
        BY <1>4, <2>2, <3>1, Zenon
      <3>2. CASE i - Len(s) \in 1 .. Len(t)
        <4>1. (i - Len(s)) + Len(s) = i
          BY <1>4, <2>2
        <4>2. (s \o t)[(i - Len(s)) + Len(s)] = t[i - Len(s)]
          BY <2>2, <3>2, Zenon
        <4>3. LateTask(t[i - Len(s)])
          BY <1>4, <3>2, Zenon
        <4> QED
          BY <4>1, <4>2, <4>3, Zenon
      <3>3. i \in 1 .. Len(s) \/ i - Len(s) \in 1 .. Len(t)
        BY <1>4, <2>2
      <3> QED
        BY <3>1, <3>2, <3>3
    <2>4. Len(s \o t) \in Nat
      BY <1>4, <2>2
    <2> QED
      BY <2>2, <2>3, <2>4, Zenon
  <1> QED
    BY <1>2, <1>3, <1>4, Zenon

LEMMA JoinedScript ==
    ASSUME NEW na, na = <<"lending", "address-provider", "oracle">>,
           NEW nb, nb = <<"address-provider", "lending", "oracle">>,
           NEW nc, nc = <<"oracle", "lending", "fee_collector", "safety_fund",
                          "protocol_admin">>
    PROVE  \E a, b, c, d, e, f, ab, abc, abcd, abcde :
            /\ TasksOf("upload", na, ContractName, AnyTask, a)
            /\ TasksOf("instantiate", nb, ContractName, AnyTask, b)
            /\ TasksOf("set_address", nc, AddressType, AnyTask, c)
            /\ TasksOf("init_asset", Assets, ElementsOf(Assets), AnyTask, d)
            /\ TasksOf("set_price_source", OracleConfigs, ElementsOf(OracleConfigs),
                       AnyTask, e)
            /\ f \in Seq(AnyTask)
            /\ Len(f) \in Nat
            /\ \A i \in 1 .. Len(f) : LateTask(f[i])
            /\ Joins(a, b, ab, AnyTask)
            /\ Joins(ab, c, abc, AnyTask)
            /\ Joins(abc, d, abcd, AnyTask)
            /\ Joins(abcd, e, abcde, AnyTask)
            /\ Joins(abcde, f, Script, AnyTask)
  <1> DEFINE a == Tasks("upload", na)
             b == Tasks("instantiate", nb)
             c == Tasks("set_address", nc)
             d == Tasks("init_asset", Assets)
             e == Tasks("set_price_source", OracleConfigs)
             f == SmokeTests \o Handover
             ab == a \o b
             abc == ab \o c
             abcd == abc \o d
             abcde == abcd \o e
  <1>1. /\ na \in Seq(ContractName) /\ nb \in Seq(ContractName)
        /\ nc \in Seq(AddressType)
    BY DEF ContractName, AddressType
  <1>2. Assets \in Seq(ElementsOf(Assets))
    BY DeploymentAssumption
  <1>3. OracleConfigs \in Seq(ElementsOf(OracleConfigs))
    BY DeploymentAssumption
  <1>4. TasksOf("upload", na, ContractName, AnyTask, a)
    <2>1. \A n \in ContractName : [kind |-> "upload", name |-> n] \in AnyTask
      BY DEF AnyTask, Handed
    <2> QED
      BY <1>1, <2>1, TasksAre
  <1>5. TasksOf("instantiate", nb, ContractName, AnyTask, b)
    <2>1. \A n \in ContractName : [kind |-> "instantiate", name |-> n] \in AnyTask
      BY DEF AnyTask, Handed
    <2> QED
      BY <1>1, <2>1, TasksAre
  <1>6. TasksOf("set_address", nc, AddressType, AnyTask, c)
    <2>1. \A n \in AddressType : [kind |-> "set_address", name |-> n] \in AnyTask
      BY DEF AnyTask
    <2> QED
      BY <1>1, <2>1, TasksAre
  <1>7. TasksOf("init_asset", Assets, ElementsOf(Assets), AnyTask, d)
    <2>1. \A n \in ElementsOf(Assets) : [kind |-> "init_asset", name |-> n] \in AnyTask
      BY DEF AnyTask
    <2> QED
      BY <1>2, <2>1, TasksAre
  <1>8. TasksOf("set_price_source", OracleConfigs, ElementsOf(OracleConfigs), AnyTask, e)
    <2>1. \A n \in ElementsOf(OracleConfigs) :
            [kind |-> "set_price_source", name |-> n] \in AnyTask
      BY DEF AnyTask
    <2> QED
      BY <1>3, <2>1, TasksAre
  <1>9. /\ f \in Seq(AnyTask)
        /\ Len(f) \in Nat
        /\ \A i \in 1 .. Len(f) : LateTask(f[i])
    BY LateTasks
  <1>10. /\ a \in Seq(AnyTask) /\ b \in Seq(AnyTask) /\ c \in Seq(AnyTask)
         /\ d \in Seq(AnyTask) /\ e \in Seq(AnyTask)
    BY <1>4, <1>5, <1>6, <1>7, <1>8 DEF TasksOf
  <1>12. Script = abcde \o f
    BY DEF Script
  <1> HIDE DEF a, b, c, d, e, f
  <1>13. Joins(a, b, ab, AnyTask)
    BY <1>10, ConcatJoins
  <1>14. ab \in Seq(AnyTask)
    BY <1>13 DEF Joins
  <1> HIDE DEF ab
  <1>15. Joins(ab, c, abc, AnyTask)
    BY <1>10, <1>14, ConcatJoins
  <1>16. abc \in Seq(AnyTask)
    BY <1>15 DEF Joins
  <1> HIDE DEF abc
  <1>17. Joins(abc, d, abcd, AnyTask)
    BY <1>10, <1>16, ConcatJoins
  <1>18. abcd \in Seq(AnyTask)
    BY <1>17 DEF Joins
  <1> HIDE DEF abcd
  <1>19. Joins(abcd, e, abcde, AnyTask)
    BY <1>10, <1>18, ConcatJoins
  <1>20. abcde \in Seq(AnyTask)
    BY <1>19 DEF Joins
  <1> HIDE DEF abcde
  <1>21. Joins(abcde, f, Script, AnyTask)
    BY <1>9, <1>12, <1>20, ConcatJoins
  <1> QED
    BY <1>4, <1>5, <1>6, <1>7, <1>8, <1>9, <1>13, <1>15, <1>17, <1>19, <1>21, Zenon

\* The contracts are uploaded and instantiated first, in this order.
LEMMA ScriptTasks ==
    /\ Len(Script) \in Nat
    /\ Len(Script) >= 6
    /\ \A i \in 1 .. Len(Script) : TaskOK(i)
  <1>1. PICK na, nb, nc :
            /\ na = <<"lending", "address-provider", "oracle">>
            /\ nb = <<"address-provider", "lending", "oracle">>
            /\ nc = <<"oracle", "lending", "fee_collector", "safety_fund", "protocol_admin">>
    BY Zenon
  <1>2. /\ Len(na) = 3 /\ Len(nb) = 3 /\ Len(nc) = 5
        /\ nb[1] = "address-provider" /\ nb[2] = "lending" /\ nb[3] = "oracle"
    BY <1>1
  <1>3. PICK a, b, c, d, e, f, ab, abc, abcd, abcde :
            /\ TasksOf("upload", na, ContractName, AnyTask, a)
            /\ TasksOf("instantiate", nb, ContractName, AnyTask, b)
            /\ TasksOf("set_address", nc, AddressType, AnyTask, c)
            /\ TasksOf("init_asset", Assets, ElementsOf(Assets), AnyTask, d)
            /\ TasksOf("set_price_source", OracleConfigs, ElementsOf(OracleConfigs),
                       AnyTask, e)
            /\ f \in Seq(AnyTask)
            /\ Len(f) \in Nat
            /\ \A i \in 1 .. Len(f) : LateTask(f[i])
            /\ Joins(a, b, ab, AnyTask)
            /\ Joins(ab, c, abc, AnyTask)
            /\ Joins(abc, d, abcd, AnyTask)
            /\ Joins(abcd, e, abcde, AnyTask)
            /\ Joins(abcde, f, Script, AnyTask)
    BY <1>1, JoinedScript
  <1>4. Len(a) = 3 /\ \A i \in 1 .. 3 : a[i].kind = "upload" /\ a[i].name \in ContractName
    <2>1. TasksOf("upload", na, ContractName, AnyTask, a)
      BY <1>3
    <2> QED
      BY <1>2, <2>1 DEF TasksOf
  <1>5. Len(b) = 3 /\ \A i \in 1 .. 3 : b[i].kind = "instantiate" /\ b[i].name = nb[i]
    <2>1. TasksOf("instantiate", nb, ContractName, AnyTask, b)
      BY <1>3
    <2> QED
      BY <1>2, <2>1 DEF TasksOf
  <1>6. Len(c) = 5 /\ \A i \in 1 .. 5 : c[i].kind = "set_address" /\ c[i].name \in AddressType
    <2>1. TasksOf("set_address", nc, AddressType, AnyTask, c)
      BY <1>3
    <2> QED
      BY <1>2, <2>1 DEF TasksOf
  <1>7. /\ Len(d) \in Nat
        /\ \A i \in 1 .. Len(d) : d[i].kind = "init_asset" /\ d[i].name \in ElementsOf(Assets)
    <2>1. TasksOf("init_asset", Assets, ElementsOf(Assets), AnyTask, d)
      BY <1>3
    <2> QED
      BY <2>1, TasksHave, Zenon
  <1>8. /\ Len(e) \in Nat
        /\ \A i \in 1 .. Len(e) :
                e[i].kind = "set_price_source" /\ e[i].name \in ElementsOf(OracleConfigs)
    <2>1. TasksOf("set_price_source", OracleConfigs, ElementsOf(OracleConfigs), AnyTask, e)
      BY <1>3
    <2> QED
      BY <2>1, TasksHave, Zenon
  <1>9. /\ Len(f) \in Nat
        /\ \A i \in 1 .. Len(f) : LateTask(f[i])
    BY <1>3
  <1>10. /\ Len(ab) = 6
         /\ \A i \in 1 .. 3 : ab[i] = a[i]
         /\ \A i \in 1 .. 3 : ab[i + 3] = b[i]
    <2>1. Joins(a, b, ab, AnyTask)
      BY <1>3
    <2> QED
      BY <1>4, <1>5, <2>1 DEF Joins
  <1>11. /\ Len(abc) = 11
         /\ \A i \in 1 .. 6 : abc[i] = ab[i]
         /\ \A i \in 1 .. 5 : abc[i + 6] = c[i]
    <2>1. Joins(ab, c, abc, AnyTask)
      BY <1>3
    <2> QED
      BY <1>6, <1>10, <2>1 DEF Joins
  <1>12. /\ Len(abcd) = 11 + Len(d)
         /\ \A i \in 1 .. 11 : abcd[i] = abc[i]
         /\ \A i \in 1 .. Len(d) : abcd[i + 11] = d[i]
    <2>1. Joins(abc, d, abcd, AnyTask)
      BY <1>3
    <2> QED
      BY <1>7, <1>11, <2>1 DEF Joins
  <1>13. /\ Len(abcde) = 11 + Len(d) + Len(e)
         /\ \A i \in 1 .. 11 + Len(d) : abcde[i] = abcd[i]
         /\ \A i \in 1 .. Len(e) : abcde[i + (11 + Len(d))] = e[i]
    <2>1. Joins(abcd, e, abcde, AnyTask)
      BY <1>3
    <2> QED
      BY <1>7, <1>8, <1>12, <2>1 DEF Joins
  <1>14. /\ Len(Script) = 11 + Len(d) + Len(e) + Len(f)
         /\ \A i \in 1 .. 11 + Len(d) + Len(e) : Script[i] = abcde[i]
         /\ \A i \in 1 .. Len(f) : Script[i + (11 + Len(d) + Len(e))] = f[i]
    <2>1. Joins(abcde, f, Script, AnyTask)
      BY <1>3
    <2> QED
      BY <1>7, <1>8, <1>9, <1>13, <2>1 DEF Joins
  <1>prefix. ASSUME NEW i \in 1 .. 11 PROVE Script[i] = abc[i]
    <2>1. i \in 1 .. 11 + Len(d) /\ i \in 1 .. 11 + Len(d) + Len(e)
      BY <1>7, <1>8
    <2>2. Script[i] = abcde[i]
      BY <1>14, <2>1, Zenon
    <2>3. abcde[i] = abcd[i]
      BY <1>13, <2>1, Zenon
    <2>4. abcd[i] = abc[i]
      BY <1>12, Zenon
    <2> QED
      BY <2>2, <2>3, <2>4, Zenon
  <1>15. ASSUME NEW i \in 1 .. 3 PROVE TaskOK(i)
    <2>1. Script[i] = a[i]
      <3>1. i \in 1 .. 6 /\ i \in 1 .. 11
        OBVIOUS
      <3>2. Script[i] = abc[i]
        BY <1>prefix, <3>1, Zenon
      <3>3. abc[i] = ab[i]
        BY <1>11, <3>1, Zenon
      <3>4. ab[i] = a[i]
        BY <1>10, Zenon
      <3> QED
        BY <3>2, <3>3, <3>4, Zenon
    <2> QED
      BY <1>4, <2>1 DEF TaskOK
  <1>16. ASSUME NEW j \in 1 .. 3 PROVE TaskOK(j + 3)
    <2>1. Script[j + 3] = b[j]
      <3>1. j + 3 \in 1 .. 6 /\ j + 3 \in 1 .. 11
        OBVIOUS
      <3>2. Script[j + 3] = abc[j + 3]
        BY <1>prefix, <3>1, Zenon
      <3>3. abc[j + 3] = ab[j + 3]
        BY <1>11, <3>1, Zenon
      <3>4. ab[j + 3] = b[j]
        BY <1>10, Zenon
      <3> QED
        BY <3>2, <3>3, <3>4, Zenon
    <2>2. j = 1 \/ j = 2 \/ j = 3
      OBVIOUS
    <2> QED
      BY <1>2, <1>5, <2>1, <2>2 DEF TaskOK
  <1>17. ASSUME NEW j \in 1 .. 5 PROVE TaskOK(j + 6)
    <2>1. Script[j + 6] = c[j]
      <3>1. j + 6 \in 1 .. 11
        OBVIOUS
      <3>2. Script[j + 6] = abc[j + 6]
        BY <1>prefix, <3>1, Zenon
      <3>3. abc[j + 6] = c[j]
        BY <1>11, Zenon
      <3> QED
        BY <3>2, <3>3, Zenon
    <2> QED
      BY <1>6, <2>1 DEF TaskOK
  <1>18. ASSUME NEW j \in 1 .. Len(d) PROVE TaskOK(j + 11)
    <2>1. Script[j + 11] = d[j]
      <3>1. /\ j + 11 \in 1 .. 11 + Len(d)
            /\ j + 11 \in 1 .. 11 + Len(d) + Len(e)
        BY <1>7, <1>8
      <3>2. Script[j + 11] = abcde[j + 11]
        BY <1>14, <3>1, Zenon
      <3>3. abcde[j + 11] = abcd[j + 11]
        BY <1>13, <3>1, Zenon
      <3>4. abcd[j + 11] = d[j]
        BY <1>12, Zenon
      <3> QED
        BY <3>2, <3>3, <3>4, Zenon
    <2> QED
      BY <1>7, <2>1 DEF TaskOK
  <1>19. ASSUME NEW j \in 1 .. Len(e) PROVE TaskOK(j + (11 + Len(d)))
    <2>1. Script[j + (11 + Len(d))] = e[j]
      <3>1. j + (11 + Len(d)) \in 1 .. 11 + Len(d) + Len(e)
        BY <1>7, <1>8
      <3>2. Script[j + (11 + Len(d))] = abcde[j + (11 + Len(d))]
        BY <1>14, <3>1, Zenon
      <3>3. abcde[j + (11 + Len(d))] = e[j]
        BY <1>13, Zenon
      <3> QED
        BY <3>2, <3>3, Zenon
    <2> QED
      BY <1>7, <1>8, <2>1 DEF TaskOK
  <1>20. ASSUME NEW j \in 1 .. Len(f) PROVE TaskOK(j + (11 + Len(d) + Len(e)))
    <2>1. Script[j + (11 + Len(d) + Len(e))] = f[j]
      BY <1>14
    <2> QED
      BY <1>7, <1>8, <1>9, <2>1 DEF TaskOK, LateTask
  <1>21. ASSUME NEW i \in 1 .. Len(Script) PROVE TaskOK(i)
    <2>1. CASE i \in 1 .. 3
      BY <1>15, <2>1
    <2>2. CASE i \in 4 .. 6
      <3>1. i - 3 \in 1 .. 3 /\ (i - 3) + 3 = i
        BY <2>2
      <3>2. TaskOK((i - 3) + 3)
        BY <1>16, <3>1, Zenon
      <3> QED
        BY <3>1, <3>2, Zenon
    <2>3. CASE i \in 7 .. 11
      <3>1. i - 6 \in 1 .. 5 /\ (i - 6) + 6 = i
        BY <2>3
      <3>2. TaskOK((i - 6) + 6)
        BY <1>17, <3>1, Zenon
      <3> QED
        BY <3>1, <3>2, Zenon
    <2>4. CASE i \in 12 .. 11 + Len(d)
      <3>1. i - 11 \in 1 .. Len(d) /\ (i - 11) + 11 = i
        BY <1>7, <2>4
      <3>2. TaskOK((i - 11) + 11)
        BY <1>18, <3>1, Zenon
      <3> QED
        BY <3>1, <3>2, Zenon
    <2>5. CASE i \in 12 + Len(d) .. 11 + Len(d) + Len(e)
      <3>1. /\ i - (11 + Len(d)) \in 1 .. Len(e)
            /\ (i - (11 + Len(d))) + (11 + Len(d)) = i
        BY <1>7, <1>8, <2>5
      <3>2. TaskOK((i - (11 + Len(d))) + (11 + Len(d)))
        BY <1>19, <3>1, Zenon
      <3> QED
        BY <3>1, <3>2, Zenon
    <2>6. CASE i \in 12 + Len(d) + Len(e) .. 11 + Len(d) + Len(e) + Len(f)
      <3>1. /\ i - (11 + Len(d) + Len(e)) \in 1 .. Len(f)
            /\ (i - (11 + Len(d) + Len(e))) + (11 + Len(d) + Len(e)) = i
        BY <1>7, <1>8, <1>9, <2>6
      <3>2. TaskOK((i - (11 + Len(d) + Len(e))) + (11 + Len(d) + Len(e)))
        BY <1>20, <3>1, Zenon
      <3> QED
        BY <3>1, <3>2, Zenon
    <2>7. /\ i \in Nat
          /\ 1 <= i
          /\ i <= 11 + Len(d) + Len(e) + Len(f)
      BY <1>7, <1>8, <1>9, <1>14
    <2>8. \/ i \in 1 .. 3 \/ i \in 4 .. 6 \/ i \in 7 .. 11
          \/ i \in 12 .. 11 + Len(d)
          \/ i \in 12 + Len(d) .. 11 + Len(d) + Len(e)
          \/ i \in 12 + Len(d) + Len(e) .. 11 + Len(d) + Len(e) + Len(f)
      BY <1>7, <1>8, <1>9, <2>7
    <2> QED
      BY <2>1, <2>2, <2>3, <2>4, <2>5, <2>6, <2>8, Zenon
  <1> QED
    BY <1>7, <1>8, <1>9, <1>14, <1>21

-----------------------------------------------------------------------------
(***************************************************************************)
(* The inductive invariant                                                 *)
(***************************************************************************)

AddressMaps == UNION {[D -> Nat \cup AddressType] : D \in SUBSET AddressType}

ContractRecord ==
    [name : ContractName, address_provider : Nat, addresses : AddressMaps,
     markets : SUBSET ElementsOf(Assets), price_sources : SUBSET ElementsOf(OracleConfigs),
     proposed : {None, Multisig}, deposited : Nat, borrowed : Nat]

Memory ==
    [codeIds : SUBSET ContractName, addresses : UNION {[D -> Nat] : D \in SUBSET ContractName},
     addressProviderUpdated : SUBSET AddressType,
     assetsInitialized : SUBSET ElementsOf(Assets)]

\* What s says of the contracts c is true.
Truthful(s, c) ==
    /\ \A name \in DOMAIN s.addresses :
        /\ s.addresses[name] \in 1 .. Len(c)
        /\ c[s.addresses[name]].name = name
    /\ \A type \in s.addressProviderUpdated :
        /\ "address-provider" \in DOMAIN s.addresses
        /\ type \in DOMAIN c[s.addresses["address-provider"]].addresses
        /\ type \in ContractName =>
            /\ type \in DOMAIN s.addresses
            /\ c[s.addresses["address-provider"]].addresses[type] = s.addresses[type]
    /\ \A d \in s.assetsInitialized :
        /\ "lending" \in DOMAIN s.addresses
        /\ d \in c[s.addresses["lending"]].markets

Typed ==
    /\ chain \in Seq(ContractRecord)
    /\ storage \in Memory
    /\ file \in Memory
    /\ pc \in 0 .. Done
    /\ faults \in 0 .. MaxFaults

\* The contracts are there once the script is past their instantiation.
Instantiated ==
    /\ pc > 4 => "address-provider" \in DOMAIN storage.addresses
    /\ pc > 5 => "lending" \in DOMAIN storage.addresses
    /\ pc > 6 => "oracle" \in DOMAIN storage.addresses

\* While the script runs, the file says nothing that the storage does not.
FileBehind == pc # 0 => file.addressProviderUpdated \subseteq storage.addressProviderUpdated

Invariant ==
    /\ Typed
    /\ Truthful(storage, chain)
    /\ Truthful(file, chain)
    /\ Instantiated
    /\ FileBehind

-----------------------------------------------------------------------------

\* new has the contracts of c, which lost nothing but perhaps the address of
\* the type at hand.
Extends(c, new, task) ==
    /\ new \in Seq(ContractRecord)
    /\ Len(c) <= Len(new)
    /\ \A a \in 1 .. Len(c) :
        /\ new[a].name = c[a].name
        /\ new[a].address_provider = c[a].address_provider
        /\ c[a].markets \subseteq new[a].markets
        /\ c[a].price_sources \subseteq new[a].price_sources
        /\ \A type \in DOMAIN c[a].addresses :
            /\ type \in DOMAIN new[a].addresses
            /\ \/ task.kind = "set_address" /\ type = task.name
               \/ new[a].addresses[type] = c[a].addresses[type]

\* What was true stays true, if the address at hand is not one that s marks.
LEMMA TruthKept ==
    ASSUME NEW c \in Seq(ContractRecord), NEW new, NEW task, NEW s \in Memory,
           Extends(c, new, task), Truthful(s, c),
           task.kind = "set_address" => task.name \notin s.addressProviderUpdated
    PROVE  Truthful(s, new)
  <1>1. Len(c) \in Nat /\ Len(new) \in Nat /\ Len(c) <= Len(new)
    BY DEF Extends
  <1>2. ASSUME NEW name \in DOMAIN s.addresses
        PROVE  /\ s.addresses[name] \in 1 .. Len(c)
               /\ s.addresses[name] \in 1 .. Len(new)
               /\ new[s.addresses[name]].name = name
    <2>1. s.addresses[name] \in 1 .. Len(c) /\ c[s.addresses[name]].name = name
      BY Zenon DEF Truthful
    <2>2. new[s.addresses[name]].name = c[s.addresses[name]].name
      BY <2>1, Zenon DEF Extends
    <2>3. s.addresses[name] \in 1 .. Len(new)
      BY <1>1, <2>1
    <2> QED
      BY <2>1, <2>2, <2>3, Zenon
  <1>3. ASSUME NEW type \in s.addressProviderUpdated
        PROVE  /\ "address-provider" \in DOMAIN s.addresses
               /\ type \in DOMAIN new[s.addresses["address-provider"]].addresses
               /\ type \in ContractName =>
                    /\ type \in DOMAIN s.addresses
                    /\ new[s.addresses["address-provider"]].addresses[type]
                        = s.addresses[type]
    <2>1. /\ "address-provider" \in DOMAIN s.addresses
          /\ type \in DOMAIN c[s.addresses["address-provider"]].addresses
          /\ type \in ContractName =>
                /\ type \in DOMAIN s.addresses
                /\ c[s.addresses["address-provider"]].addresses[type] = s.addresses[type]
      BY Zenon DEF Truthful
    <2>2. s.addresses["address-provider"] \in 1 .. Len(c)
      BY <1>2, <2>1, Zenon
    <2>3. ~(task.kind = "set_address" /\ type = task.name)
      OBVIOUS
    <2>4. /\ type \in DOMAIN new[s.addresses["address-provider"]].addresses
          /\ new[s.addresses["address-provider"]].addresses[type]
                = c[s.addresses["address-provider"]].addresses[type]
      BY <2>1, <2>2, <2>3, Zenon DEF Extends
    <2> QED
      BY <2>1, <2>4, Zenon
  <1>4. ASSUME NEW d \in s.assetsInitialized
        PROVE  /\ "lending" \in DOMAIN s.addresses
               /\ d \in new[s.addresses["lending"]].markets
    <2>1. /\ "lending" \in DOMAIN s.addresses
          /\ d \in c[s.addresses["lending"]].markets
      BY Zenon DEF Truthful
    <2>2. s.addresses["lending"] \in 1 .. Len(c)
      BY <1>2, <2>1, Zenon
    <2>3. c[s.addresses["lending"]].markets \subseteq new[s.addresses["lending"]].markets
      BY <2>2, Zenon DEF Extends
    <2> QED
      BY <2>1, <2>3, Zenon
  <1> QED
    BY <1>2, <1>3, <1>4, Zenon DEF Truthful

LEMMA AppendExtends ==
    ASSUME NEW c \in Seq(ContractRecord), NEW r \in ContractRecord, NEW task
    PROVE  /\ Extends(c, Append(c, r), task)
           /\ Len(Append(c, r)) = Len(c) + 1
           /\ Append(c, r)[Len(c) + 1] = r
  <1> DEFINE new == Append(c, r)
  <1>1. /\ new \in Seq(ContractRecord)
        /\ Len(c) \in Nat
        /\ Len(new) = Len(c) + 1
        /\ new[Len(c) + 1] = r
        /\ \A a \in 1 .. Len(c) : new[a] = c[a]
    OBVIOUS
  <1> HIDE DEF new
  <1>2. Len(c) <= Len(new)
    BY <1>1
  <1>3. Extends(c, new, task)
    BY <1>1, <1>2, Zenon DEF Extends
  <1> QED
    BY <1>1, <1>3 DEF new

\* The contract at k becomes r, which has lost nothing of what c had there.
LEMMA UpdateExtends ==
    ASSUME NEW c \in Seq(ContractRecord), NEW k \in 1 .. Len(c), NEW r \in ContractRecord,
           NEW task,
           r.name = c[k].name,
           r.address_provider = c[k].address_provider,
           c[k].markets \subseteq r.markets,
           c[k].price_sources \subseteq r.price_sources,
           \A type \in DOMAIN c[k].addresses :
            /\ type \in DOMAIN r.addresses
            /\ \/ task.kind = "set_address" /\ type = task.name
               \/ r.addresses[type] = c[k].addresses[type]
    PROVE  /\ Extends(c, [c EXCEPT ![k] = r], task)
           /\ [c EXCEPT ![k] = r][k] = r
  <1> DEFINE new == [c EXCEPT ![k] = r]
  <1>1. /\ new \in Seq(ContractRecord)
        /\ Len(c) \in Nat
        /\ Len(new) = Len(c)
        /\ new[k] = r
        /\ \A a \in 1 .. Len(c) : a = k \/ new[a] = c[a]
    OBVIOUS
  <1> HIDE DEF new
  <1>2. Len(c) <= Len(new)
    BY <1>1
  <1>3. ASSUME NEW a \in 1 .. Len(c)
        PROVE  /\ new[a].name = c[a].name
               /\ new[a].address_provider = c[a].address_provider
               /\ c[a].markets \subseteq new[a].markets
               /\ c[a].price_sources \subseteq new[a].price_sources
               /\ \A type \in DOMAIN c[a].addresses :
                    /\ type \in DOMAIN new[a].addresses
                    /\ \/ task.kind = "set_address" /\ type = task.name
                       \/ new[a].addresses[type] = c[a].addresses[type]
    <2>1. CASE a = k
      BY <1>1, <2>1, Zenon
    <2>2. CASE a # k
      BY <1>1, <2>2, Zenon
    <2> QED
      BY <2>1, <2>2, Zenon
  <1>4. Extends(c, new, task)
    BY <1>1, <1>2, <1>3, Zenon DEF Extends
  <1> QED
    BY <1>1, <1>4 DEF new

LEMMA SameExtends ==
    ASSUME NEW c \in Seq(ContractRecord), NEW task
    PROVE  Extends(c, c, task)
  <1>1. Len(c) \in Nat /\ Len(c) <= Len(c)
    OBVIOUS
  <1> QED
    BY <1>1, Zenon DEF Extends

LEMMA ScriptTask ==
    ASSUME Typed, Running
    PROVE  /\ pc \in 1 .. Len(Script)
           /\ TaskOK(pc)
           /\ pc + 1 \in 0 .. Done
  BY ScriptTasks DEF Typed, Running, Done

\* The contract that name stands for in storage.
LEMMA Known ==
    ASSUME Typed, Truthful(storage, chain), NEW name \in DOMAIN storage.addresses
    PROVE  /\ Contract(name) \in 1 .. Len(chain)
           /\ Contract(name) \in Nat
           /\ Contract(name) = storage.addresses[name]
           /\ chain[Contract(name)] \in ContractRecord
           /\ name \in ContractName
  <1>1. storage.addresses[name] \in 1 .. Len(chain)
    BY Zenon DEF Truthful
  <1>2. chain \in Seq(ContractRecord)
    BY DEF Typed
  <1>3. chain[storage.addresses[name]] \in ContractRecord
    BY <1>1, <1>2
  <1>4. storage.addresses \in UNION {[D -> Nat] : D \in SUBSET ContractName}
    BY DEF Typed, Memory
  <1>5. name \in ContractName
    BY <1>4
  <1>6. storage.addresses[name] \in Nat
    BY <1>1, <1>2
  <1> QED
    BY <1>1, <1>3, <1>5, <1>6, Zenon DEF Contract

-----------------------------------------------------------------------------
(***************************************************************************)
(* The calls                                                               *)
(***************************************************************************)

Calling ==
    /\ Typed
    /\ Truthful(storage, chain)
    /\ Instantiated
    /\ Running
    /\ ~Marked(Task)

LEMMA InstantiateEffect ==
    ASSUME Calling, Task.kind = "instantiate"
    PROVE  /\ Extends(chain, Effect(Task), Task)
           /\ Len(chain) + 1 \in 1 .. Len(Effect(Task))
           /\ Effect(Task)[Len(chain) + 1].name = Task.name
  <1>1. Effect(Task) = Append(chain, NewContract(Task.name))
    BY DEF Effect
  <1>2. Task.name \in ContractName /\ (Task.name = "lending" => pc = 5)
    BY ScriptTask DEF Calling, TaskOK, Task, ContractName
  <1>3. Task.name = "lending" => Contract("address-provider") \in Nat
    BY <1>2, Known DEF Calling, Instantiated
  <1>4. EmptyMap \in AddressMaps
    BY DEF EmptyMap, AddressMaps
  <1>5. NewContract(Task.name) \in ContractRecord
    BY <1>2, <1>3, <1>4 DEF NewContract, ContractRecord
  <1>6. NewContract(Task.name).name = Task.name
    BY DEF NewContract
  <1>7. chain \in Seq(ContractRecord) /\ Len(chain) \in Nat
    BY DEF Calling, Typed
  <1>8. /\ Extends(chain, Append(chain, NewContract(Task.name)), Task)
        /\ Len(Append(chain, NewContract(Task.name))) = Len(chain) + 1
        /\ Append(chain, NewContract(Task.name))[Len(chain) + 1] = NewContract(Task.name)
    BY <1>5, <1>7, AppendExtends, Zenon
  <1>9. Len(chain) + 1 \in 1 .. Len(chain) + 1
    BY <1>7
  <1> QED
    BY <1>1, <1>6, <1>8, <1>9, Zenon

LEMMA SaveInMaps ==
    ASSUME NEW map \in AddressMaps, NEW type \in AddressType,
           NEW value \in Nat \cup AddressType
    PROVE  /\ Save(map, type, value) \in AddressMaps
           /\ type \in DOMAIN Save(map, type, value)
           /\ Save(map, type, value)[type] = value
           /\ \A t \in DOMAIN map : /\ t \in DOMAIN Save(map, type, value)
                                    /\ t = type \/ Save(map, type, value)[t] = map[t]
  <1>1. PICK D \in SUBSET AddressType : map \in [D -> Nat \cup AddressType]
    BY DEF AddressMaps
  <1>2. D \cup {type} \in SUBSET AddressType
    OBVIOUS
  <1>3. Save(map, type, value) \in [D \cup {type} -> Nat \cup AddressType]
    BY <1>1 DEF Save
  <1>4. Save(map, type, value) \in AddressMaps
    BY <1>2, <1>3, Zenon DEF AddressMaps
  <1> QED
    BY <1>1, <1>4 DEF Save

LEMMA SetAddressEffect ==
    ASSUME Calling, Task.kind = "set_address"
    PROVE  /\ Extends(chain, Effect(Task), Task)
           /\ Task.name \in AddressType
           /\ pc > 6
           /\ "address-provider" \in DOMAIN storage.addresses
           /\ Task.name \in DOMAIN Effect(Task)[Contract("address-provider")].addresses
           /\ Effect(Task)[Contract("address-provider")].addresses[Task.name]
                = AddressOf(Task.name)
  <1>1. Task.name \in AddressType /\ pc > 6 /\ pc > 4 /\ pc > 5
    BY ScriptTask DEF Calling, TaskOK, Task, ContractName, Typed
  <1>2. /\ "address-provider" \in DOMAIN storage.addresses
        /\ "lending" \in DOMAIN storage.addresses
        /\ "oracle" \in DOMAIN storage.addresses
    BY <1>1 DEF Calling, Instantiated
  <1> DEFINE k == Contract("address-provider")
             v == AddressOf(Task.name)
             r == [chain[k] EXCEPT !.addresses = Save(chain[k].addresses, Task.name, v)]
  <1>3. k \in 1 .. Len(chain) /\ chain[k] \in ContractRecord
    BY <1>2, Known DEF Calling
  <1>4. v \in Nat \cup AddressType
    <2>1. CASE Task.name \in ContractName
      <3>1. Task.name \in DOMAIN storage.addresses
        BY <1>2, <2>1 DEF ContractName
      <3>2. Contract(Task.name) \in Nat
        BY <3>1, Known DEF Calling
      <3> QED
        BY <2>1, <3>2 DEF AddressOf
    <2>2. CASE Task.name \notin ContractName
      BY <1>1, <2>2 DEF AddressOf
    <2> QED
      BY <2>1, <2>2
  <1>5. Effect(Task) = [chain EXCEPT ![k] = r]
    BY DEF Effect
  <1> HIDE DEF k, v
  <1>6. chain[k].addresses \in AddressMaps
    BY <1>3 DEF ContractRecord
  <1>7. /\ Save(chain[k].addresses, Task.name, v) \in AddressMaps
        /\ Task.name \in DOMAIN Save(chain[k].addresses, Task.name, v)
        /\ Save(chain[k].addresses, Task.name, v)[Task.name] = v
        /\ \A t \in DOMAIN chain[k].addresses :
            /\ t \in DOMAIN Save(chain[k].addresses, Task.name, v)
            /\ \/ t = Task.name
               \/ Save(chain[k].addresses, Task.name, v)[t] = chain[k].addresses[t]
    BY <1>1, <1>4, <1>6, SaveInMaps, Zenon
  <1>8. /\ r \in ContractRecord
        /\ r.name = chain[k].name
        /\ r.address_provider = chain[k].address_provider
        /\ r.markets = chain[k].markets
        /\ r.price_sources = chain[k].price_sources
        /\ r.addresses = Save(chain[k].addresses, Task.name, v)
    <2>1. r = [chain[k] EXCEPT !.addresses = Save(chain[k].addresses, Task.name, v)]
      OBVIOUS
    <2> HIDE DEF r
    <2> QED
      BY <1>3, <1>7, <2>1 DEF ContractRecord
  <1> HIDE DEF r
  <1>9. chain \in Seq(ContractRecord)
    BY DEF Calling, Typed
  <1>10. /\ chain[k].markets \subseteq r.markets
         /\ chain[k].price_sources \subseteq r.price_sources
         /\ \A type \in DOMAIN chain[k].addresses :
                /\ type \in DOMAIN r.addresses
                /\ \/ Task.kind = "set_address" /\ type = Task.name
                   \/ r.addresses[type] = chain[k].addresses[type]
    BY <1>7, <1>8, Zenon
  <1>11. /\ Extends(chain, [chain EXCEPT ![k] = r], Task)
         /\ [chain EXCEPT ![k] = r][k] = r
    BY <1>3, <1>8, <1>9, <1>10, UpdateExtends
  <1>12. Effect(Task)[k].addresses = Save(chain[k].addresses, Task.name, v)
    BY <1>5, <1>8, <1>11, Zenon
  <1> QED
    BY <1>1, <1>2, <1>5, <1>7, <1>11, <1>12, Zenon DEF k, v

LEMMA InitAssetEffect ==
    ASSUME Calling, Task.kind = "init_asset"
    PROVE  /\ Extends(chain, Effect(Task), Task)
           /\ Task.name \in ElementsOf(Assets)
           /\ "lending" \in DOMAIN storage.addresses
           /\ Task.name \in Effect(Task)[Contract("lending")].markets
  <1>1. Task.name \in ElementsOf(Assets) /\ pc > 5
    BY ScriptTask DEF Calling, TaskOK, Task, Typed
  <1>2. "lending" \in DOMAIN storage.addresses
    BY <1>1 DEF Calling, Instantiated
  <1> DEFINE k == Contract("lending")
             r == [chain[k] EXCEPT !.markets = chain[k].markets \cup {Task.name}]
  <1>3. k \in 1 .. Len(chain) /\ chain[k] \in ContractRecord
    BY <1>2, Known DEF Calling
  <1>4. Effect(Task) = [chain EXCEPT ![k] = r]
    BY DEF Effect
  <1> HIDE DEF k
  <1>5. /\ r \in ContractRecord
        /\ r.name = chain[k].name
        /\ r.address_provider = chain[k].address_provider
        /\ r.markets = chain[k].markets \cup {Task.name}
        /\ r.price_sources = chain[k].price_sources
        /\ r.addresses = chain[k].addresses
    <2>1. r = [chain[k] EXCEPT !.markets = chain[k].markets \cup {Task.name}]
      OBVIOUS
    <2> HIDE DEF r
    <2> QED
      BY <1>1, <1>3, <2>1 DEF ContractRecord
  <1> HIDE DEF r
  <1>6. chain \in Seq(ContractRecord)
    BY DEF Calling, Typed
  <1>7. /\ chain[k].markets \subseteq r.markets
        /\ chain[k].price_sources \subseteq r.price_sources
        /\ Task.name \in r.markets
    BY <1>5
  <1>8. \A type \in DOMAIN chain[k].addresses :
            /\ type \in DOMAIN r.addresses
            /\ \/ Task.kind = "set_address" /\ type = Task.name
               \/ r.addresses[type] = chain[k].addresses[type]
    BY <1>5, Zenon
  <1>9. /\ Extends(chain, [chain EXCEPT ![k] = r], Task)
        /\ [chain EXCEPT ![k] = r][k] = r
    BY <1>3, <1>5, <1>6, <1>7, <1>8, UpdateExtends
  <1> QED
    BY <1>1, <1>2, <1>4, <1>7, <1>9, Zenon DEF k

\* A smoke test moves coins of the deployer and nothing else.
LEMMA SmokeTestEffect ==
    ASSUME Calling, Accepted(Task), Task.kind = "smoke_test"
    PROVE  Extends(chain, Effect(Task), Task)
  <1>1. Task.name \in SmokeTest /\ pc > 6
    BY ScriptTask DEF Calling, TaskOK, Task, Typed
  <1>2. "lending" \in DOMAIN storage.addresses
    BY <1>1 DEF Calling, Instantiated, Typed
  <1> DEFINE k == Contract("lending")
             r == Tested(chain[k], Task.name)
  <1>3. k \in 1 .. Len(chain) /\ chain[k] \in ContractRecord
    BY <1>2, Known DEF Calling
  <1>4. Effect(Task) = [chain EXCEPT ![k] = r]
    BY DEF Effect
  <1>5. Task.name = "withdraw" => chain[k].deposited >= 10
    BY DEF Accepted, TestAccepted
  <1> HIDE DEF k
  <1>6. /\ r \in ContractRecord
        /\ r.name = chain[k].name
        /\ r.address_provider = chain[k].address_provider
        /\ r.markets = chain[k].markets
        /\ r.price_sources = chain[k].price_sources
        /\ r.addresses = chain[k].addresses
    <2>1. CASE Task.name = "deposit"
      BY <1>3, <2>1 DEF Tested, ContractRecord
    <2>2. CASE Task.name = "borrow"
      BY <1>3, <2>2 DEF Tested, ContractRecord
    <2>3. CASE Task.name = "repay"
      BY <1>3, <2>3 DEF Tested, ContractRecord
    <2>4. CASE Task.name = "withdraw"
      BY <1>3, <1>5, <2>4 DEF Tested, ContractRecord
    <2> QED
      BY <1>1, <2>1, <2>2, <2>3, <2>4 DEF SmokeTest
  <1> HIDE DEF r
  <1>7. chain \in Seq(ContractRecord)
    BY DEF Calling, Typed
  <1>8. /\ chain[k].markets \subseteq r.markets
        /\ chain[k].price_sources \subseteq r.price_sources
    BY <1>6
  <1>9. \A type \in DOMAIN chain[k].addresses :
            /\ type \in DOMAIN r.addresses
            /\ \/ Task.kind = "set_address" /\ type = Task.name
               \/ r.addresses[type] = chain[k].addresses[type]
    BY <1>6, Zenon
  <1>10. Extends(chain, [chain EXCEPT ![k] = r], Task)
    BY <1>3, <1>6, <1>7, <1>8, <1>9, UpdateExtends
  <1> QED
    BY <1>4, <1>10, Zenon

\* Price sources and proposed owners are nothing that the script remembers.
LEMMA OtherEffect ==
    ASSUME Calling, Accepted(Task),
           Task.kind \in {"upload", "set_price_source", "handover"}
    PROVE  Extends(chain, Effect(Task), Task)
  <1>1. chain \in Seq(ContractRecord)
    BY DEF Calling, Typed
  <1>2. CASE Task.kind = "upload"
    <2>1. Effect(Task) = chain
      BY <1>2 DEF Effect
    <2> QED
      BY <1>1, <2>1, SameExtends
  <1>3. CASE Task.kind = "set_price_source"
    <2>1. Task.name \in ElementsOf(OracleConfigs) /\ pc > 6
      BY <1>3, ScriptTask DEF Calling, TaskOK, Task, Typed
    <2>2. "oracle" \in DOMAIN storage.addresses
      BY <2>1 DEF Calling, Instantiated
    <2> DEFINE k == Contract("oracle")
               r == [chain[k] EXCEPT !.price_sources = chain[k].price_sources \cup {Task.name}]
    <2>3. k \in 1 .. Len(chain) /\ chain[k] \in ContractRecord
      BY <2>2, Known DEF Calling
    <2>4. Effect(Task) = [chain EXCEPT ![k] = r]
      BY <1>3 DEF Effect
    <2> HIDE DEF k
    <2>5. /\ r \in ContractRecord
          /\ r.name = chain[k].name
          /\ r.address_provider = chain[k].address_provider
          /\ r.markets = chain[k].markets
          /\ r.price_sources = chain[k].price_sources \cup {Task.name}
          /\ r.addresses = chain[k].addresses
      <3>1. r = [chain[k] EXCEPT !.price_sources = chain[k].price_sources \cup {Task.name}]
        OBVIOUS
      <3> HIDE DEF r
      <3> QED
        BY <2>1, <2>3, <3>1 DEF ContractRecord
    <2> HIDE DEF r
    <2>6. /\ chain[k].markets \subseteq r.markets
          /\ chain[k].price_sources \subseteq r.price_sources
      BY <2>5
    <2>7. \A type \in DOMAIN chain[k].addresses :
            /\ type \in DOMAIN r.addresses
            /\ \/ Task.kind = "set_address" /\ type = Task.name
               \/ r.addresses[type] = chain[k].addresses[type]
      BY <2>5, Zenon
    <2>8. Extends(chain, [chain EXCEPT ![k] = r], Task)
      BY <1>1, <2>3, <2>5, <2>6, <2>7, UpdateExtends
    <2> QED
      BY <2>4, <2>8, Zenon
  <1>4. CASE Task.kind = "handover"
    <2>1. Task.name \in DOMAIN storage.addresses
      BY <1>4 DEF Accepted
    <2> DEFINE k == Contract(Task.name)
               r == [chain[k] EXCEPT !.proposed = Multisig]
    <2>2. k \in 1 .. Len(chain) /\ chain[k] \in ContractRecord
      BY <2>1, Known DEF Calling
    <2>3. Effect(Task) = [chain EXCEPT ![k] = r]
      BY <1>4 DEF Effect
    <2> HIDE DEF k
    <2>4. /\ r \in ContractRecord
          /\ r.name = chain[k].name
          /\ r.address_provider = chain[k].address_provider
          /\ r.markets = chain[k].markets
          /\ r.price_sources = chain[k].price_sources
          /\ r.addresses = chain[k].addresses
      <3>1. r = [chain[k] EXCEPT !.proposed = Multisig]
        OBVIOUS
      <3> HIDE DEF r
      <3> QED
        BY <2>2, <3>1 DEF ContractRecord
    <2> HIDE DEF r
    <2>5. /\ chain[k].markets \subseteq r.markets
          /\ chain[k].price_sources \subseteq r.price_sources
      BY <2>4
    <2>6. \A type \in DOMAIN chain[k].addresses :
            /\ type \in DOMAIN r.addresses
            /\ \/ Task.kind = "set_address" /\ type = Task.name
               \/ r.addresses[type] = chain[k].addresses[type]
      BY <2>4, Zenon
    <2>7. Extends(chain, [chain EXCEPT ![k] = r], Task)
      BY <1>1, <2>2, <2>4, <2>5, <2>6, UpdateExtends
    <2> QED
      BY <2>3, <2>7, Zenon
  <1> QED
    BY <1>2, <1>3, <1>4

LEMMA EffectExtends ==
    ASSUME Calling, Accepted(Task)
    PROVE  Extends(chain, Effect(Task), Task)
  <1>1. Task.kind \in {"upload", "instantiate", "set_address", "init_asset",
                       "set_price_source", "smoke_test", "handover"}
    BY ScriptTask DEF Calling, TaskOK, Task
  <1> QED
    BY <1>1, InstantiateEffect, SetAddressEffect, InitAssetEffect, SmokeTestEffect,
       OtherEffect

\* A call, whether the script remembers it or not, keeps what both copies say.
LEMMA CallKeepsTruth ==
    ASSUME Calling, Accepted(Task), Truthful(file, chain), FileBehind
    PROVE  /\ Effect(Task) \in Seq(ContractRecord)
           /\ Truthful(storage, Effect(Task))
           /\ Truthful(file, Effect(Task))
  <1>1. Extends(chain, Effect(Task), Task)
    BY EffectExtends
  <1>2. chain \in Seq(ContractRecord) /\ storage \in Memory /\ file \in Memory
    BY DEF Calling, Typed
  <1>3. Task.kind = "set_address" => Task.name \notin storage.addressProviderUpdated
    BY DEF Calling, Marked
  <1>4. Task.kind = "set_address" => Task.name \notin file.addressProviderUpdated
    BY <1>3 DEF FileBehind, Calling, Running
  <1>5. Effect(Task) \in Seq(ContractRecord)
    BY <1>1 DEF Extends
  <1>6. Truthful(storage, chain)
    BY DEF Calling
  <1>7. Truthful(storage, Effect(Task))
    BY <1>1, <1>2, <1>3, <1>6, TruthKept
  <1>8. Truthful(file, Effect(Task))
    BY <1>1, <1>2, <1>4, TruthKept
  <1> QED
    BY <1>5, <1>7, <1>8

-----------------------------------------------------------------------------
(***************************************************************************)
(* What the script remembers of a call that returned                       *)
(***************************************************************************)

LEMMA RememberedInstance ==
    ASSUME Calling, Task.kind = "instantiate"
    PROVE  /\ Remembered(Task) \in Memory
           /\ Remembered(Task).addressProviderUpdated = storage.addressProviderUpdated
           /\ Remembered(Task).assetsInitialized = storage.assetsInitialized
           /\ Task.name \notin DOMAIN storage.addresses
           /\ DOMAIN Remembered(Task).addresses = DOMAIN storage.addresses \cup {Task.name}
           /\ Remembered(Task).addresses[Task.name] = Len(chain) + 1
           /\ \A name \in DOMAIN storage.addresses :
                Remembered(Task).addresses[name] = storage.addresses[name]
  <1>1. Task.name \in ContractName
    BY ScriptTask DEF Calling, TaskOK, Task, ContractName
  <1>2. Len(chain) + 1 \in Nat
    BY DEF Calling, Typed
  <1> DEFINE new == Save(storage.addresses, Task.name, Len(chain) + 1)
  <1>3. storage \in Memory
    BY DEF Calling, Typed
  <1>4. PICK D \in SUBSET ContractName : storage.addresses \in [D -> Nat]
    BY <1>3 DEF Memory
  <1>5. /\ new \in [D \cup {Task.name} -> Nat]
        /\ new[Task.name] = Len(chain) + 1
        /\ D \cup {Task.name} \in SUBSET ContractName
    BY <1>1, <1>2, <1>4 DEF Save
  <1>6. \A name \in DOMAIN storage.addresses \ {Task.name} : new[name] = storage.addresses[name]
    BY DEF Save
  <1>7. Task.name \notin DOMAIN storage.addresses
    BY DEF Calling, Marked
  <1>8. Remembered(Task) = [storage EXCEPT !.addresses = new]
    BY DEF Remembered
  <1>9. DOMAIN new = DOMAIN storage.addresses \cup {Task.name}
    BY DEF Save
  <1> HIDE DEF new
  <1>10. new \in UNION {[E -> Nat] : E \in SUBSET ContractName}
    BY <1>5, Zenon
  <1>11. /\ Remembered(Task) \in Memory
         /\ Remembered(Task).addressProviderUpdated = storage.addressProviderUpdated
         /\ Remembered(Task).assetsInitialized = storage.assetsInitialized
         /\ Remembered(Task).addresses = new
    BY <1>3, <1>8, <1>10 DEF Memory
  <1> QED
    BY <1>5, <1>6, <1>7, <1>9, <1>11

LEMMA RememberedTruth ==
    ASSUME Calling, Accepted(Task), Truthful(storage, Effect(Task))
    PROVE  /\ Remembered(Task) \in Memory
           /\ Truthful(Remembered(Task), Effect(Task))
           /\ DOMAIN storage.addresses \subseteq DOMAIN Remembered(Task).addresses
           /\ Task.kind = "instantiate" => Task.name \in DOMAIN Remembered(Task).addresses
           /\ storage.addressProviderUpdated \subseteq Remembered(Task).addressProviderUpdated
  <1>1. Task.kind \in {"upload", "instantiate", "set_address", "init_asset",
                       "set_price_source", "smoke_test", "handover"}
    BY ScriptTask DEF Calling, TaskOK, Task
  <1>2. storage \in Memory
    BY DEF Calling, Typed
  <1> DEFINE s == Remembered(Task)
             c == Effect(Task)
  <1>3. CASE Task.kind = "upload"
    <2>1. Task.name \in ContractName
      BY <1>3, ScriptTask DEF Calling, TaskOK, Task
    <2>2. s = [storage EXCEPT !.codeIds = @ \cup {Task.name}]
      BY <1>3 DEF Remembered
    <2> HIDE DEF s
    <2>3. /\ s \in Memory /\ s.addresses = storage.addresses
          /\ s.addressProviderUpdated = storage.addressProviderUpdated
          /\ s.assetsInitialized = storage.assetsInitialized
      BY <1>2, <2>1, <2>2 DEF Memory
    <2>4. Truthful(s, c)
      BY <2>3, Zenon DEF Truthful
    <2> QED
      BY <1>3, <2>3, <2>4 DEF s
  <1>4. CASE Task.kind = "instantiate"
    <2>1. /\ s \in Memory
          /\ s.addressProviderUpdated = storage.addressProviderUpdated
          /\ s.assetsInitialized = storage.assetsInitialized
          /\ Task.name \notin DOMAIN storage.addresses
          /\ DOMAIN s.addresses = DOMAIN storage.addresses \cup {Task.name}
          /\ s.addresses[Task.name] = Len(chain) + 1
          /\ \A name \in DOMAIN storage.addresses : s.addresses[name] = storage.addresses[name]
      BY <1>4, RememberedInstance
    <2>2. Len(chain) + 1 \in 1 .. Len(c) /\ c[Len(chain) + 1].name = Task.name
      BY <1>4, InstantiateEffect
    <2> HIDE DEF s, c
    <2>3. Truthful(storage, c)
      BY DEF c
    <2>4. ASSUME NEW name \in DOMAIN s.addresses
          PROVE  s.addresses[name] \in 1 .. Len(c) /\ c[s.addresses[name]].name = name
      <3>1. CASE name = Task.name
        BY <2>1, <2>2, <3>1, Zenon
      <3>2. CASE name \in DOMAIN storage.addresses
        BY <2>1, <2>3, <3>2, Zenon DEF Truthful
      <3>3. name = Task.name \/ name \in DOMAIN storage.addresses
        BY <2>1
      <3> QED
        BY <3>1, <3>2, <3>3
    <2>5. ASSUME NEW type \in s.addressProviderUpdated
          PROVE  /\ "address-provider" \in DOMAIN s.addresses
                 /\ type \in DOMAIN c[s.addresses["address-provider"]].addresses
                 /\ type \in ContractName =>
                        /\ type \in DOMAIN s.addresses
                        /\ c[s.addresses["address-provider"]].addresses[type]
                            = s.addresses[type]
      <3>1. /\ "address-provider" \in DOMAIN storage.addresses
            /\ type \in DOMAIN c[storage.addresses["address-provider"]].addresses
            /\ type \in ContractName =>
                    /\ type \in DOMAIN storage.addresses
                    /\ c[storage.addresses["address-provider"]].addresses[type]
                        = storage.addresses[type]
        BY <2>1, <2>3, Zenon DEF Truthful
      <3>2. \A name \in DOMAIN storage.addresses :
                name \in DOMAIN s.addresses /\ s.addresses[name] = storage.addresses[name]
        BY <2>1
      <3> QED
        BY <3>1, <3>2, Zenon
    <2>6. ASSUME NEW d \in s.assetsInitialized
          PROVE  "lending" \in DOMAIN s.addresses /\ d \in c[s.addresses["lending"]].markets
      <3>1. /\ "lending" \in DOMAIN storage.addresses
            /\ d \in c[storage.addresses["lending"]].markets
        BY <2>1, <2>3, Zenon DEF Truthful
      <3> QED
        BY <2>1, <3>1
    <2>7. Truthful(s, c)
      BY <2>4, <2>5, <2>6, Zenon DEF Truthful
    <2> QED
      BY <2>1, <2>7 DEF s, c
  <1>5. CASE Task.kind = "set_address"
    <2>1. /\ Task.name \in AddressType
          /\ pc > 6
          /\ "address-provider" \in DOMAIN storage.addresses
          /\ Task.name \in DOMAIN c[Contract("address-provider")].addresses
          /\ c[Contract("address-provider")].addresses[Task.name] = AddressOf(Task.name)
      BY <1>5, SetAddressEffect
    <2>2. s = [storage EXCEPT !.addressProviderUpdated = @ \cup {Task.name}]
      BY <1>5 DEF Remembered
    <2>3. Truthful(storage, c)
      OBVIOUS
    <2> HIDE DEF s, c
    <2>4. /\ s \in Memory /\ s.addresses = storage.addresses
          /\ s.addressProviderUpdated = storage.addressProviderUpdated \cup {Task.name}
          /\ s.assetsInitialized = storage.assetsInitialized
      BY <1>2, <2>1, <2>2 DEF Memory
    <2>5. Task.name \in ContractName =>
            /\ Task.name \in DOMAIN storage.addresses
            /\ AddressOf(Task.name) = storage.addresses[Task.name]
      <3>1. HAVE Task.name \in ContractName
      <3>2. Task.name = "lending" \/ Task.name = "oracle"
        BY <2>1, <3>1 DEF ContractName, AddressType
      <3>3. Task.name \in DOMAIN storage.addresses
        BY <2>1, <3>2 DEF Calling, Instantiated, Typed
      <3> QED
        BY <3>1, <3>3 DEF AddressOf, Contract
    <2>6. ASSUME NEW type \in s.addressProviderUpdated
          PROVE  /\ "address-provider" \in DOMAIN s.addresses
                 /\ type \in DOMAIN c[s.addresses["address-provider"]].addresses
                 /\ type \in ContractName =>
                        /\ type \in DOMAIN s.addresses
                        /\ c[s.addresses["address-provider"]].addresses[type]
                            = s.addresses[type]
      <3>1. CASE type = Task.name
        BY <2>1, <2>4, <2>5, <3>1, Zenon DEF Contract
      <3>2. CASE type \in storage.addressProviderUpdated
        BY <2>3, <2>4, <3>2, Zenon DEF Truthful
      <3>3. type = Task.name \/ type \in storage.addressProviderUpdated
        BY <2>4
      <3> QED
        BY <3>1, <3>2, <3>3, Zenon
    <2>7. Truthful(s, c)
      BY <2>3, <2>4, <2>6, Zenon DEF Truthful
    <2> QED
      BY <1>5, <2>4, <2>7 DEF s, c
  <1>6. CASE Task.kind = "init_asset"
    <2>1. /\ Task.name \in ElementsOf(Assets)
          /\ "lending" \in DOMAIN storage.addresses
          /\ Task.name \in c[Contract("lending")].markets
      BY <1>6, InitAssetEffect
    <2>2. s = [storage EXCEPT !.assetsInitialized = @ \cup {Task.name}]
      BY <1>6 DEF Remembered
    <2>3. Truthful(storage, c)
      OBVIOUS
    <2> HIDE DEF s, c
    <2>4. /\ s \in Memory /\ s.addresses = storage.addresses
          /\ s.addressProviderUpdated = storage.addressProviderUpdated
          /\ s.assetsInitialized = storage.assetsInitialized \cup {Task.name}
      BY <1>2, <2>1, <2>2 DEF Memory
    <2>5. ASSUME NEW d \in s.assetsInitialized
          PROVE  "lending" \in DOMAIN s.addresses /\ d \in c[s.addresses["lending"]].markets
      <3>1. CASE d = Task.name
        BY <2>1, <2>4, <3>1, Zenon DEF Contract
      <3>2. CASE d \in storage.assetsInitialized
        BY <2>3, <2>4, <3>2, Zenon DEF Truthful
      <3>3. d = Task.name \/ d \in storage.assetsInitialized
        BY <2>4
      <3> QED
        BY <3>1, <3>2, <3>3, Zenon
    <2>6. Truthful(s, c)
      BY <2>3, <2>4, <2>5, Zenon DEF Truthful
    <2> QED
      BY <1>6, <2>4, <2>6 DEF s, c
  <1>7. CASE Task.kind \in {"set_price_source", "smoke_test", "handover"}
    <2>1. s = storage
      BY <1>7 DEF Remembered
    <2> QED
      BY <1>2, <1>7, <2>1
  <1> QED
    BY <1>1, <1>3, <1>4, <1>5, <1>6, <1>7

-----------------------------------------------------------------------------
(***************************************************************************)
(* The steps                                                               *)
(***************************************************************************)

LEMMA EmptyTruth ==
    ASSUME NEW c
    PROVE  EmptyStorage \in Memory /\ Truthful(EmptyStorage, c)
  <1>1. EmptyMap \in [{} -> Nat] /\ DOMAIN EmptyMap = {}
    BY DEF EmptyMap
  <1>2. EmptyMap \in UNION {[D -> Nat] : D \in SUBSET ContractName}
    BY <1>1, Zenon
  <1> QED
    BY <1>1, <1>2 DEF EmptyStorage, Memory, Truthful

LEMMA InvariantInit == Init => Invariant
  <1> SUFFICES ASSUME Init PROVE Invariant
    OBVIOUS
  <1>1. EmptyStorage \in Memory /\ Truthful(EmptyStorage, chain)
    BY EmptyTruth
  <1>2. Typed
    BY <1>1, ScriptTasks, DeploymentAssumption DEF Init, Typed, Done
  <1> QED
    BY <1>1, <1>2 DEF Init, Invariant, Instantiated, FileBehind

\* A script past the instantiation of a contract knows it.
LEMMA StillInstantiated ==
    ASSUME Typed, Running, Instantiated, pc' = pc + 1,
           DOMAIN storage.addresses \subseteq DOMAIN storage'.addresses,
           Task.kind = "instantiate" => Task.name \in DOMAIN storage'.addresses
    PROVE  Instantiated'
  BY ScriptTask DEF Typed, Running, Instantiated, TaskOK, Task

\* A run that ends leaves a file that says what the storage said.
LEMMA ThrowKeeps ==
    ASSUME Invariant, Running, ~Marked(Task), Throw(Task),
           chain' \in Seq(ContractRecord), Truthful(storage, chain'),
           Truthful(file, chain'), faults' \in 0 .. MaxFaults
    PROVE  Invariant'
  <1>1. storage' = storage
    BY DEF Throw
  <1>2. CASE Catches(Task)
    <2>1. pc' = pc + 1 /\ file' = file
      BY <1>2 DEF Throw
    <2>2. pc' \in 0 .. Done
      BY <2>1, ScriptTask DEF Invariant
    <2>3. Typed'
      BY <1>1, <2>1, <2>2 DEF Invariant, Typed, Done
    <2>4. Instantiated'
      BY <1>1, <1>2, <2>1, StillInstantiated DEF Invariant, Catches
    <2>5. FileBehind'
      BY <1>1, <2>1 DEF Invariant, FileBehind, Running
    <2> QED
      BY <1>1, <2>1, <2>3, <2>4, <2>5 DEF Invariant
  <1>3. CASE ~Catches(Task)
    <2>1. pc' = 0 /\ file' = storage
      BY <1>3 DEF Throw
    <2>2. Typed'
      BY <1>1, <2>1, ScriptTasks DEF Invariant, Typed, Done
    <2> QED
      BY <1>1, <2>1, <2>2 DEF Invariant, Instantiated, FileBehind
  <1> QED
    BY <1>2, <1>3

LEMMA InvariantStep == Invariant /\ [Next]_vars => Invariant'
  <1> SUFFICES ASSUME Invariant, [Next]_vars PROVE Invariant'
    OBVIOUS
  <1>1. CASE Skip
    <2>1. Running /\ Marked(Task) /\ pc' = pc + 1
      BY <1>1 DEF Skip
    <2>2. chain' = chain /\ storage' = storage /\ file' = file /\ faults' = faults
      BY <1>1 DEF Skip
    <2>3. Typed'
      BY <2>1, <2>2, ScriptTask DEF Invariant, Typed, Done
    <2>4. Instantiated'
      BY <2>1, <2>2, StillInstantiated DEF Invariant, Marked
    <2> QED
      BY <2>1, <2>2, <2>3, <2>4 DEF Invariant, FileBehind, Running
  <1>2. CASE Succeed
    <2>1. /\ Running /\ ~Marked(Task) /\ Accepted(Task)
          /\ chain' = Effect(Task) /\ storage' = Remembered(Task)
          /\ pc' = pc + 1 /\ file' = file /\ faults' = faults
      BY <1>2 DEF Succeed
    <2>2. Calling
      BY <2>1 DEF Invariant, Calling
    <2>3. /\ chain' \in Seq(ContractRecord)
          /\ Truthful(storage, Effect(Task))
          /\ Truthful(file, Effect(Task))
      BY <2>1, <2>2, CallKeepsTruth DEF Invariant
    <2>4. /\ storage' \in Memory
          /\ Truthful(storage', chain')
          /\ DOMAIN storage.addresses \subseteq DOMAIN storage'.addresses
          /\ Task.kind = "instantiate" => Task.name \in DOMAIN storage'.addresses
          /\ storage.addressProviderUpdated \subseteq storage'.addressProviderUpdated
      BY <2>1, <2>2, <2>3, RememberedTruth
    <2>5. Typed'
      BY <2>1, <2>3, <2>4, ScriptTask DEF Invariant, Typed, Done
    <2>6. Instantiated'
      BY <2>1, <2>4, StillInstantiated DEF Invariant
    <2>7. FileBehind'
      BY <2>1, <2>4 DEF Invariant, FileBehind, Running
    <2>8. Truthful(file, chain)'
      BY <2>1, <2>3
    <2> QED
      BY <2>4, <2>5, <2>6, <2>7, <2>8 DEF Invariant
  <1>3. CASE Refused
    BY <1>3, ThrowKeeps DEF Refused, Invariant, Typed
  <1>4. CASE Fail
    <2>1. /\ Running /\ ~Marked(Task) /\ Throw(Task)
          /\ faults < MaxFaults /\ faults' = faults + 1
      BY <1>4 DEF Fail
    <2>2. chain' = chain \/ (Accepted(Task) /\ chain' = Effect(Task))
      BY <1>4, Zenon DEF Fail
    <2>3. faults' \in 0 .. MaxFaults
      BY <2>1, DeploymentAssumption DEF Invariant, Typed
    <2>4. CASE chain' = chain
      BY <2>1, <2>3, <2>4, ThrowKeeps DEF Invariant, Typed
    <2>5. CASE Accepted(Task) /\ chain' = Effect(Task)
      <3>1. Calling
        BY <2>1 DEF Invariant, Calling
      <3>2. /\ chain' \in Seq(ContractRecord)
            /\ Truthful(storage, chain')
            /\ Truthful(file, chain')
        BY <2>5, <3>1, CallKeepsTruth DEF Invariant
      <3> QED
        BY <2>1, <2>3, <3>2, ThrowKeeps
    <2> QED
      BY <2>2, <2>4, <2>5
  <1>5. CASE Crash
    <2>1. /\ pc' = 0 /\ storage' = EmptyStorage /\ chain' = chain /\ file' = file
          /\ faults < MaxFaults /\ faults' = faults + 1
      BY <1>5 DEF Crash
    <2>2. EmptyStorage \in Memory /\ Truthful(EmptyStorage, chain)
      BY EmptyTruth
    <2>3. Typed'
      BY <2>1, <2>2, ScriptTasks, DeploymentAssumption DEF Invariant, Typed, Done
    <2> QED
      BY <2>1, <2>2, <2>3 DEF Invariant, Instantiated, FileBehind
  <1>6. CASE Start
    <2>1. /\ pc' = 1 /\ storage' = file /\ chain' = chain /\ file' = file
          /\ faults' = faults
      BY <1>6 DEF Start
    <2>2. Typed'
      BY <2>1, ScriptTasks DEF Invariant, Typed, Done
    <2> QED
      BY <2>1, <2>2 DEF Invariant, Instantiated, FileBehind
  <1>7. CASE Finish
    <2>1. /\ file' = storage /\ chain' = chain /\ storage' = storage /\ pc' = pc
          /\ faults' = faults
      BY <1>7 DEF Finish
    <2>2. Typed'
      BY <2>1 DEF Invariant, Typed, Done
    <2> QED
      BY <2>1, <2>2 DEF Invariant, Instantiated, FileBehind
  <1>8. CASE UNCHANGED vars
    BY <1>8 DEF vars, Invariant, Typed, Truthful, Instantiated, FileBehind, Done
  <1> QED
    BY <1>1, <1>2, <1>3, <1>4, <1>5, <1>6, <1>7, <1>8 DEF Next

LEMMA InvariantImplies == Invariant => DeploymentTypeOK /\ MarksAreTrue
  <1> SUFFICES ASSUME Invariant PROVE DeploymentTypeOK /\ MarksAreTrue
    OBVIOUS
  <1>1. DOMAIN chain = 1 .. Len(chain)
    BY DEF Invariant, Typed
  <1>2. \A s \in {storage, file} : s \in Memory /\ Truthful(s, chain)
    BY DEF Invariant, Typed
  <1>3. ASSUME NEW s \in {storage, file}
        PROVE  /\ s.codeIds \subseteq ContractName
               /\ DOMAIN s.addresses \subseteq ContractName
               /\ s.addressProviderUpdated \subseteq AddressType
               /\ s.assetsInitialized \subseteq ElementsOf(Assets)
    BY <1>2 DEF Memory
  <1>4. ASSUME NEW s \in {storage, file}, NEW name \in DOMAIN s.addresses
        PROVE  /\ s.addresses[name] \in DOMAIN chain
               /\ chain[s.addresses[name]].name = name
    BY <1>1, <1>2, Zenon DEF Truthful
  <1>5. DeploymentTypeOK
    BY <1>3, <1>4 DEF DeploymentTypeOK, Invariant, Typed
  <1>6. ASSUME NEW s \in {storage, file}, NEW type \in s.addressProviderUpdated
        PROVE  /\ Made(s, "address-provider")
               /\ type \in DOMAIN chain[s.addresses["address-provider"]].addresses
               /\ type \in ContractName =>
                    /\ Made(s, type)
                    /\ chain[s.addresses["address-provider"]].addresses[type]
                        = s.addresses[type]
    <2>1. /\ "address-provider" \in DOMAIN s.addresses
          /\ type \in DOMAIN chain[s.addresses["address-provider"]].addresses
          /\ type \in ContractName =>
                /\ type \in DOMAIN s.addresses
                /\ chain[s.addresses["address-provider"]].addresses[type] = s.addresses[type]
      BY <1>2, Zenon DEF Truthful
    <2> QED
      BY <1>4, <2>1 DEF Made
  <1>7. ASSUME NEW s \in {storage, file}, NEW d \in s.assetsInitialized
        PROVE  Made(s, "lending") /\ d \in chain[s.addresses["lending"]].markets
    <2>1. "lending" \in DOMAIN s.addresses /\ d \in chain[s.addresses["lending"]].markets
      BY <1>2, Zenon DEF Truthful
    <2> QED
      BY <1>4, <2>1, Zenon DEF Made
  <1>8. MarksAreTrue
    BY <1>6, <1>7, Zenon DEF MarksAreTrue
  <1> QED
    BY <1>5, <1>8

-----------------------------------------------------------------------------
(***************************************************************************)
(* Every task before the one at hand has its effect, on the contracts that *)
(* the storage names                                                       *)
(***************************************************************************)

\* The lending contract that s names was given the address provider of s.
Linked(s, c) ==
    "lending" \in DOMAIN s.addresses =>
        /\ "address-provider" \in DOMAIN s.addresses
        /\ c[s.addresses["lending"]].address_provider = s.addresses["address-provider"]

HasEffect(task, s, c) ==
    /\ task.kind = "set_address" =>
        /\ "address-provider" \in DOMAIN s.addresses
        /\ task.name \in DOMAIN c[s.addresses["address-provider"]].addresses
        /\ task.name \in ContractName =>
            /\ task.name \in DOMAIN s.addresses
            /\ c[s.addresses["address-provider"]].addresses[task.name]
                = s.addresses[task.name]
    /\ task.kind = "init_asset" =>
        /\ "lending" \in DOMAIN s.addresses
        /\ task.name \in c[s.addresses["lending"]].markets
    /\ task.kind = "set_price_source" =>
        /\ "oracle" \in DOMAIN s.addresses
        /\ task.name \in c[s.addresses["oracle"]].price_sources

Progress == \A i \in 1 .. pc - 1 : HasEffect(Script[i], storage, chain)

Complete ==
    /\ Linked(storage, chain)
    /\ Linked(file, chain)
    /\ Progress

\* The memory new names the contracts that s names, and perhaps more.
Remembers(s, new) ==
    \A name \in DOMAIN s.addresses :
        name \in DOMAIN new.addresses /\ new.addresses[name] = s.addresses[name]

LEMMA LinkKept ==
    ASSUME NEW c, NEW new, NEW task, NEW s, Extends(c, new, task), Truthful(s, c),
           Linked(s, c)
    PROVE  Linked(s, new)
  <1>1. CASE "lending" \in DOMAIN s.addresses
    <2>1. s.addresses["lending"] \in 1 .. Len(c)
      BY <1>1, Zenon DEF Truthful
    <2>2. new[s.addresses["lending"]].address_provider
            = c[s.addresses["lending"]].address_provider
      BY <2>1, Zenon DEF Extends
    <2> QED
      BY <1>1, <2>2, Zenon DEF Linked
  <1>2. CASE "lending" \notin DOMAIN s.addresses
    BY <1>2, Zenon DEF Linked
  <1> QED
    BY <1>1, <1>2, Zenon

\* What a task did stays done, though an address may be set again, to the same.
LEMMA EffectKept ==
    ASSUME NEW c, NEW new, NEW task, NEW s, NEW t,
           Extends(c, new, task), Truthful(s, c), HasEffect(t, s, c),
           task.kind = "set_address" => HasEffect(task, s, new)
    PROVE  HasEffect(t, s, new)
  <1>1. ASSUME NEW name \in DOMAIN s.addresses
        PROVE  s.addresses[name] \in 1 .. Len(c)
    BY Zenon DEF Truthful
  <1>2. ASSUME t.kind = "set_address"
        PROVE  /\ "address-provider" \in DOMAIN s.addresses
               /\ t.name \in DOMAIN new[s.addresses["address-provider"]].addresses
               /\ t.name \in ContractName =>
                    /\ t.name \in DOMAIN s.addresses
                    /\ new[s.addresses["address-provider"]].addresses[t.name]
                        = s.addresses[t.name]
    <2>1. /\ "address-provider" \in DOMAIN s.addresses
          /\ t.name \in DOMAIN c[s.addresses["address-provider"]].addresses
          /\ t.name \in ContractName =>
                /\ t.name \in DOMAIN s.addresses
                /\ c[s.addresses["address-provider"]].addresses[t.name] = s.addresses[t.name]
      BY <1>2, Zenon DEF HasEffect
    <2>2. /\ t.name \in DOMAIN new[s.addresses["address-provider"]].addresses
          /\ \/ task.kind = "set_address" /\ t.name = task.name
             \/ new[s.addresses["address-provider"]].addresses[t.name]
                    = c[s.addresses["address-provider"]].addresses[t.name]
      BY <1>1, <2>1, Zenon DEF Extends
    <2>3. CASE task.kind = "set_address" /\ t.name = task.name
      BY <2>1, <2>3, Zenon DEF HasEffect
    <2>4. CASE new[s.addresses["address-provider"]].addresses[t.name]
                    = c[s.addresses["address-provider"]].addresses[t.name]
      BY <2>1, <2>2, <2>4, Zenon
    <2> QED
      BY <2>2, <2>3, <2>4, Zenon
  <1>3. ASSUME t.kind = "init_asset"
        PROVE  /\ "lending" \in DOMAIN s.addresses
               /\ t.name \in new[s.addresses["lending"]].markets
    <2>1. /\ "lending" \in DOMAIN s.addresses
          /\ t.name \in c[s.addresses["lending"]].markets
      BY <1>3, Zenon DEF HasEffect
    <2>2. c[s.addresses["lending"]].markets \subseteq new[s.addresses["lending"]].markets
      BY <1>1, <2>1, Zenon DEF Extends
    <2> QED
      BY <2>1, <2>2, Zenon
  <1>4. ASSUME t.kind = "set_price_source"
        PROVE  /\ "oracle" \in DOMAIN s.addresses
               /\ t.name \in new[s.addresses["oracle"]].price_sources
    <2>1. /\ "oracle" \in DOMAIN s.addresses
          /\ t.name \in c[s.addresses["oracle"]].price_sources
      BY <1>4, Zenon DEF HasEffect
    <2>2. c[s.addresses["oracle"]].price_sources
            \subseteq new[s.addresses["oracle"]].price_sources
      BY <1>1, <2>1, Zenon DEF Extends
    <2> QED
      BY <2>1, <2>2, Zenon
  <1> QED
    BY <1>2, <1>3, <1>4, Zenon DEF HasEffect

\* A memory that names more contracts has what the smaller one had.
LEMMA EffectOfMore ==
    ASSUME NEW c, NEW s, NEW new, NEW t, Remembers(s, new), HasEffect(t, s, c)
    PROVE  HasEffect(t, new, c)
  BY Zenon DEF Remembers, HasEffect

\* The address that the call sets is the one the storage has.
LEMMA AddressIsSet ==
    ASSUME Calling, Task.kind = "set_address"
    PROVE  HasEffect(Task, storage, Effect(Task))
  <1>1. /\ Task.name \in AddressType
        /\ pc > 6
        /\ "address-provider" \in DOMAIN storage.addresses
        /\ Task.name \in DOMAIN Effect(Task)[Contract("address-provider")].addresses
        /\ Effect(Task)[Contract("address-provider")].addresses[Task.name]
            = AddressOf(Task.name)
    BY SetAddressEffect
  <1>2. Task.name \in ContractName =>
            /\ Task.name \in DOMAIN storage.addresses
            /\ AddressOf(Task.name) = storage.addresses[Task.name]
    <2>1. HAVE Task.name \in ContractName
    <2>2. Task.name = "lending" \/ Task.name = "oracle"
      BY <1>1, <2>1 DEF ContractName, AddressType
    <2>3. Task.name \in DOMAIN storage.addresses
      BY <1>1, <2>2 DEF Calling, Instantiated, Typed
    <2> QED
      BY <2>1, <2>3 DEF AddressOf, Contract
  <1>3. Contract("address-provider") = storage.addresses["address-provider"]
    BY DEF Contract
  <1>4. Task.kind # "init_asset" /\ Task.kind # "set_price_source"
    OBVIOUS
  <1> QED
    BY <1>1, <1>2, <1>3, <1>4, Zenon DEF HasEffect

LEMMA PriceSourceIsSet ==
    ASSUME Calling, Task.kind = "set_price_source"
    PROVE  /\ "oracle" \in DOMAIN storage.addresses
           /\ Task.name \in Effect(Task)[storage.addresses["oracle"]].price_sources
  <1>1. pc > 6
    BY ScriptTask DEF Calling, TaskOK, Task, Typed
  <1>2. "oracle" \in DOMAIN storage.addresses
    BY <1>1 DEF Calling, Instantiated
  <1> DEFINE k == Contract("oracle")
             r == [chain[k] EXCEPT !.price_sources = chain[k].price_sources \cup {Task.name}]
  <1>3. k \in 1 .. Len(chain) /\ k = storage.addresses["oracle"] /\ chain \in Seq(ContractRecord)
    BY <1>2, Known DEF Calling, Typed
  <1>4. Effect(Task) = [chain EXCEPT ![k] = r]
    BY DEF Effect
  <1> HIDE DEF k
  <1>5. chain[k] \in ContractRecord
    BY <1>3
  <1>6. Task.name \in r.price_sources
    BY <1>5 DEF ContractRecord
  <1> HIDE DEF r
  <1>7. Effect(Task)[k] = r
    BY <1>3, <1>4
  <1> QED
    BY <1>2, <1>3, <1>6, <1>7

\* A call that the contract accepts does what the task is there for.
LEMMA CallHasEffect ==
    ASSUME Calling, Accepted(Task)
    PROVE  HasEffect(Task, storage, Effect(Task))
  <1>1. CASE Task.kind = "set_address"
    BY <1>1, AddressIsSet
  <1>2. CASE Task.kind = "init_asset"
    <2>1. /\ "lending" \in DOMAIN storage.addresses
          /\ Task.name \in Effect(Task)[Contract("lending")].markets
      BY <1>2, InitAssetEffect
    <2> QED
      BY <1>2, <2>1 DEF HasEffect, Contract
  <1>3. CASE Task.kind = "set_price_source"
    BY <1>3, PriceSourceIsSet DEF HasEffect
  <1>4. CASE Task.kind \notin {"set_address", "init_asset", "set_price_source"}
    BY <1>4 DEF HasEffect
  <1> QED
    BY <1>1, <1>2, <1>3, <1>4

\* A task that the script skips was done: its mark is true.
LEMMA MarkHasEffect ==
    ASSUME Typed, Running, Marked(Task), Truthful(storage, chain)
    PROVE  HasEffect(Task, storage, chain)
  <1>1. CASE Task.kind = "set_address"
    <2>1. Task.name \in storage.addressProviderUpdated
      BY <1>1 DEF Marked
    <2> QED
      BY <1>1, <2>1 DEF HasEffect, Truthful
  <1>2. CASE Task.kind = "init_asset"
    <2>1. Task.name \in storage.assetsInitialized
      BY <1>2 DEF Marked
    <2> QED
      BY <1>2, <2>1 DEF HasEffect, Truthful
  <1>3. CASE Task.kind \notin {"set_address", "init_asset"}
    BY <1>3 DEF HasEffect, Marked
  <1> QED
    BY <1>1, <1>2, <1>3

\* Calls leave what earlier tasks did.
LEMMA CallKeepsComplete ==
    ASSUME Calling, Accepted(Task), Truthful(file, chain), Complete
    PROVE  /\ Linked(storage, Effect(Task))
           /\ Linked(file, Effect(Task))
           /\ \A i \in 1 .. pc - 1 : HasEffect(Script[i], storage, Effect(Task))
  <1>1. Extends(chain, Effect(Task), Task)
    BY EffectExtends
  <1>2. Truthful(storage, chain)
    BY DEF Calling
  <1>3. Task.kind = "set_address" => HasEffect(Task, storage, Effect(Task))
    BY AddressIsSet
  <1>4. Linked(storage, Effect(Task)) /\ Linked(file, Effect(Task))
    BY <1>1, <1>2, LinkKept DEF Complete
  <1>5. ASSUME NEW i \in 1 .. pc - 1
        PROVE  HasEffect(Script[i], storage, Effect(Task))
    <2>1. HasEffect(Script[i], storage, chain)
      BY DEF Complete, Progress
    <2> QED
      BY <1>1, <1>2, <1>3, <2>1, EffectKept
  <1> QED
    BY <1>4, <1>5

\* The storage forgets no address, and the lending contract that it comes to know
\* was given the address provider that it knows.
LEMMA RememberedLinks ==
    ASSUME Calling, Accepted(Task), Linked(storage, chain), Linked(storage, Effect(Task))
    PROVE  /\ Remembers(storage, Remembered(Task))
           /\ Linked(Remembered(Task), Effect(Task))
  <1>1. CASE Task.kind = "instantiate"
    <2> DEFINE s == Remembered(Task)
               c == Effect(Task)
    <2>1. /\ Task.name \notin DOMAIN storage.addresses
          /\ DOMAIN s.addresses = DOMAIN storage.addresses \cup {Task.name}
          /\ s.addresses[Task.name] = Len(chain) + 1
          /\ \A name \in DOMAIN storage.addresses : s.addresses[name] = storage.addresses[name]
      BY <1>1, RememberedInstance
    <2>2. c = Append(chain, NewContract(Task.name))
      BY <1>1 DEF Effect
    <2>3. c[Len(chain) + 1] = NewContract(Task.name)
      BY <2>2 DEF Calling, Typed
    <2>4. Remembers(storage, s)
      BY <2>1, Zenon DEF Remembers
    <2> HIDE DEF s, c
    <2>5. CASE Task.name = "lending"
      <3>1. pc > 4
        BY <1>1, <2>5, ScriptTask DEF Calling, TaskOK, Task, Typed
      <3>2. "address-provider" \in DOMAIN storage.addresses
        BY <3>1 DEF Calling, Instantiated
      <3>3. c[Len(chain) + 1].address_provider = storage.addresses["address-provider"]
        BY <2>3, <2>5 DEF NewContract, Contract
      <3> QED
        BY <2>1, <2>4, <2>5, <3>2, <3>3, Zenon DEF Linked, Remembers, s, c
    <2>6. CASE Task.name # "lending"
      <3>1. CASE "lending" \in DOMAIN s.addresses
        <4>1. "lending" \in DOMAIN storage.addresses
          BY <2>1, <2>6, <3>1
        <4>2. /\ "address-provider" \in DOMAIN storage.addresses
              /\ c[storage.addresses["lending"]].address_provider
                    = storage.addresses["address-provider"]
          BY <4>1, Zenon DEF Linked, c
        <4> QED
          BY <2>4, <4>1, <4>2, Zenon DEF Linked, Remembers, s, c
      <3>2. CASE "lending" \notin DOMAIN s.addresses
        BY <2>4, <3>2, Zenon DEF Linked, s, c
      <3> QED
        BY <3>1, <3>2, Zenon
    <2> QED
      BY <2>5, <2>6, Zenon
  <1>2. CASE Task.kind # "instantiate"
    <2>1. Remembered(Task).addresses = storage.addresses
      BY <1>2 DEF Remembered, Calling, Typed, Memory
    <2> QED
      BY <2>1, Zenon DEF Linked, Remembers
  <1> QED
    BY <1>1, <1>2, Zenon

LEMMA EmptyLinked ==
    ASSUME NEW c
    PROVE  Linked(EmptyStorage, c)
  <1>1. DOMAIN EmptyStorage.addresses = {}
    BY DEF EmptyStorage, EmptyMap
  <1> QED
    BY <1>1 DEF Linked

LEMMA CompleteInit == Init => Complete
  BY EmptyLinked DEF Init, Complete, Progress

\* A task that throws and does not end the run is an upload, or a smoke test.
LEMMA ThrowComplete ==
    ASSUME Typed, Running, Throw(Task),
           Linked(storage, chain'), Linked(file, chain'),
           \A i \in 1 .. pc - 1 : HasEffect(Script[i], storage, chain')
    PROVE  Complete'
  <1>1. storage' = storage
    BY DEF Throw
  <1>2. CASE Catches(Task)
    <2>1. pc' = pc + 1 /\ file' = file
      BY <1>2 DEF Throw
    <2>2. HasEffect(Task, storage, chain')
      BY <1>2 DEF HasEffect, Catches
    <2>3. ASSUME NEW i \in 1 .. pc' - 1
          PROVE  HasEffect(Script[i], storage, chain')
      <3>1. i = pc \/ i \in 1 .. pc - 1
        BY <2>1 DEF Typed, Running
      <3> QED
        BY <2>2, <3>1, Zenon DEF Task
    <2> QED
      BY <1>1, <2>1, <2>3 DEF Complete, Progress
  <1>3. CASE ~Catches(Task)
    <2>1. pc' = 0 /\ file' = storage
      BY <1>3 DEF Throw
    <2> QED
      BY <1>1, <2>1 DEF Complete, Progress
  <1> QED
    BY <1>2, <1>3

LEMMA CompleteStep == Invariant /\ Complete /\ [Next]_vars => Complete'
  <1> SUFFICES ASSUME Invariant, Complete, [Next]_vars PROVE Complete'
    OBVIOUS
  <1>1. CASE Skip
    <2>1. Running /\ Marked(Task) /\ pc' = pc + 1
      BY <1>1 DEF Skip
    <2>2. chain' = chain /\ storage' = storage /\ file' = file
      BY <1>1 DEF Skip
    <2>3. HasEffect(Task, storage, chain)
      BY <2>1, MarkHasEffect DEF Invariant
    <2>4. ASSUME NEW i \in 1 .. pc' - 1
          PROVE  HasEffect(Script[i], storage, chain)
      <3>1. i = pc \/ i \in 1 .. pc - 1
        BY <2>1 DEF Invariant, Typed, Running
      <3> QED
        BY <2>3, <3>1, Zenon DEF Task, Complete, Progress
    <2> QED
      BY <2>2, <2>4 DEF Complete, Progress
  <1>2. CASE Succeed
    <2>1. /\ Running /\ ~Marked(Task) /\ Accepted(Task)
          /\ chain' = Effect(Task) /\ storage' = Remembered(Task)
          /\ pc' = pc + 1 /\ file' = file
      BY <1>2 DEF Succeed
    <2>2. Calling
      BY <2>1 DEF Invariant, Calling
    <2>3. /\ Linked(storage, Effect(Task))
          /\ Linked(file, Effect(Task))
          /\ \A i \in 1 .. pc - 1 : HasEffect(Script[i], storage, Effect(Task))
      BY <2>1, <2>2, CallKeepsComplete DEF Invariant
    <2>4. /\ Remembers(storage, Remembered(Task))
          /\ Linked(Remembered(Task), Effect(Task))
      BY <2>1, <2>2, <2>3, RememberedLinks DEF Complete
    <2>5. HasEffect(Task, storage, Effect(Task))
      BY <2>1, <2>2, CallHasEffect
    <2>6. ASSUME NEW i \in 1 .. pc' - 1
          PROVE  HasEffect(Script[i], Remembered(Task), Effect(Task))
      <3>1. i = pc \/ i \in 1 .. pc - 1
        BY <2>1 DEF Invariant, Typed, Running
      <3>2. HasEffect(Script[i], storage, Effect(Task))
        BY <2>3, <2>5, <3>1, Zenon DEF Task
      <3> QED
        BY <2>4, <3>2, EffectOfMore
    <2> QED
      BY <2>1, <2>3, <2>4, <2>6 DEF Complete, Progress
  <1>3. CASE Refused
    BY <1>3, ThrowComplete DEF Refused, Invariant, Complete, Progress
  <1>4. CASE Fail
    <2>1. Running /\ ~Marked(Task) /\ Throw(Task)
      BY <1>4 DEF Fail
    <2>2. chain' = chain \/ (Accepted(Task) /\ chain' = Effect(Task))
      BY <1>4, Zenon DEF Fail
    <2>3. CASE chain' = chain
      BY <2>1, <2>3, ThrowComplete DEF Invariant, Complete, Progress
    <2>4. CASE Accepted(Task) /\ chain' = Effect(Task)
      <3>1. Calling
        BY <2>1 DEF Invariant, Calling
      <3>2. /\ Linked(storage, chain')
            /\ Linked(file, chain')
            /\ \A i \in 1 .. pc - 1 : HasEffect(Script[i], storage, chain')
        BY <2>4, <3>1, CallKeepsComplete DEF Invariant
      <3> QED
        BY <2>1, <3>2, ThrowComplete DEF Invariant
    <2> QED
      BY <2>2, <2>3, <2>4
  <1>5. CASE Crash
    BY <1>5, EmptyLinked DEF Crash, Complete, Progress
  <1>6. CASE Start
    BY <1>6 DEF Start, Complete, Progress
  <1>7. CASE Finish
    BY <1>7 DEF Finish, Complete, Progress
  <1>8. CASE UNCHANGED vars
    BY <1>8 DEF vars, Complete, Progress
  <1> QED
    BY <1>1, <1>2, <1>3, <1>4, <1>5, <1>6, <1>7, <1>8 DEF Next

-----------------------------------------------------------------------------
(***************************************************************************)
(* The script as a whole                                                   *)
(***************************************************************************)

Has(seq, kind, name) == \E i \in 1 .. Len(seq) : seq[i] = [kind |-> kind, name |-> name]

LEMMA HasTask ==
    ASSUME NEW kind, NEW S, NEW names, NEW T, NEW seq, TasksOf(kind, names, S, T, seq),
           NEW i \in 1 .. Len(names)
    PROVE  Has(seq, kind, names[i])
  BY Zenon DEF TasksOf, Has

LEMMA JoinHas ==
    ASSUME NEW s, NEW t, NEW u, NEW S, Joins(s, t, u, S), Len(s) \in Nat, Len(t) \in Nat,
           NEW kind, NEW name
    PROVE  /\ Has(s, kind, name) => Has(u, kind, name)
           /\ Has(t, kind, name) => Has(u, kind, name)
  <1>1. ASSUME Has(s, kind, name) PROVE Has(u, kind, name)
    <2>1. PICK i \in 1 .. Len(s) : s[i] = [kind |-> kind, name |-> name]
      BY <1>1, Zenon DEF Has
    <2>2. u[i] = [kind |-> kind, name |-> name]
      BY <2>1, Zenon DEF Joins
    <2>3. i \in 1 .. Len(u)
      BY DEF Joins
    <2> QED
      BY <2>2, <2>3, Zenon DEF Has
  <1>2. ASSUME Has(t, kind, name) PROVE Has(u, kind, name)
    <2>1. PICK i \in 1 .. Len(t) : t[i] = [kind |-> kind, name |-> name]
      BY <1>2, Zenon DEF Has
    <2>2. u[i + Len(s)] = [kind |-> kind, name |-> name]
      BY <2>1, Zenon DEF Joins
    <2>3. i + Len(s) \in 1 .. Len(u)
      BY DEF Joins
    <2> QED
      BY <2>2, <2>3, Zenon DEF Has
  <1> QED
    BY <1>1, <1>2

\* Every address, asset and oracle configuration has its task.
LEMMA ScriptHas ==
    /\ \A type \in AddressType : Has(Script, "set_address", type)
    /\ \A d \in ElementsOf(Assets) : Has(Script, "init_asset", d)
    /\ \A d \in ElementsOf(OracleConfigs) : Has(Script, "set_price_source", d)
  <1>1. PICK na, nb, nc :
            /\ na = <<"lending", "address-provider", "oracle">>
            /\ nb = <<"address-provider", "lending", "oracle">>
            /\ nc = <<"oracle", "lending", "fee_collector", "safety_fund", "protocol_admin">>
    BY Zenon
  <1>2. PICK a, b, c, d, e, f, ab, abc, abcd, abcde :
            /\ TasksOf("upload", na, ContractName, AnyTask, a)
            /\ TasksOf("instantiate", nb, ContractName, AnyTask, b)
            /\ TasksOf("set_address", nc, AddressType, AnyTask, c)
            /\ TasksOf("init_asset", Assets, ElementsOf(Assets), AnyTask, d)
            /\ TasksOf("set_price_source", OracleConfigs, ElementsOf(OracleConfigs),
                       AnyTask, e)
            /\ f \in Seq(AnyTask)
            /\ Len(f) \in Nat
            /\ \A i \in 1 .. Len(f) : LateTask(f[i])
            /\ Joins(a, b, ab, AnyTask)
            /\ Joins(ab, c, abc, AnyTask)
            /\ Joins(abc, d, abcd, AnyTask)
            /\ Joins(abcd, e, abcde, AnyTask)
            /\ Joins(abcde, f, Script, AnyTask)
    BY <1>1, JoinedScript
  <1>3. Len(a) \in Nat /\ Len(b) \in Nat /\ Len(c) \in Nat /\ Len(d) \in Nat /\ Len(e) \in Nat
    BY <1>2, Zenon DEF TasksOf
  <1>4. Len(f) \in Nat
    BY <1>2
  <1>5. Len(ab) \in Nat /\ Len(abc) \in Nat /\ Len(abcd) \in Nat /\ Len(abcde) \in Nat
    BY <1>2 DEF Joins
  <1>6. ASSUME NEW kind, NEW name,
               Has(c, kind, name) \/ Has(d, kind, name) \/ Has(e, kind, name)
        PROVE  Has(Script, kind, name)
    <2>1. Has(c, kind, name) => Has(abc, kind, name)
      <3>1. Joins(ab, c, abc, AnyTask)
        BY <1>2
      <3> QED
        BY <1>3, <1>5, <3>1, JoinHas
    <2>2. /\ Has(abc, kind, name) => Has(abcd, kind, name)
          /\ Has(d, kind, name) => Has(abcd, kind, name)
      <3>1. Joins(abc, d, abcd, AnyTask)
        BY <1>2
      <3> QED
        BY <1>3, <1>5, <3>1, JoinHas
    <2>3. /\ Has(abcd, kind, name) => Has(abcde, kind, name)
          /\ Has(e, kind, name) => Has(abcde, kind, name)
      <3>1. Joins(abcd, e, abcde, AnyTask)
        BY <1>2
      <3> QED
        BY <1>3, <1>5, <3>1, JoinHas
    <2>4. Has(abcde, kind, name) => Has(Script, kind, name)
      <3>1. Joins(abcde, f, Script, AnyTask)
        BY <1>2
      <3> QED
        BY <1>4, <1>5, <3>1, JoinHas
    <2> QED
      BY <1>6, <2>1, <2>2, <2>3, <2>4
  <1>7. ASSUME NEW type \in AddressType
        PROVE  Has(Script, "set_address", type)
    <2>1. PICK i \in 1 .. 5 : type = nc[i]
      BY <1>1 DEF AddressType
    <2>2. Len(nc) = 5
      BY <1>1
    <2>3. Has(c, "set_address", type)
      BY <1>2, <2>1, <2>2, HasTask
    <2> QED
      BY <1>6, <2>3
  <1>8. ASSUME NEW x \in ElementsOf(Assets)
        PROVE  Has(Script, "init_asset", x)
    <2>1. PICK i \in 1 .. Len(Assets) : x = Assets[i]
      BY DeploymentAssumption DEF ElementsOf
    <2>2. Has(d, "init_asset", x)
      BY <1>2, <2>1, HasTask
    <2> QED
      BY <1>6, <2>2
  <1>9. ASSUME NEW x \in ElementsOf(OracleConfigs)
        PROVE  Has(Script, "set_price_source", x)
    <2>1. PICK i \in 1 .. Len(OracleConfigs) : x = OracleConfigs[i]
      BY DeploymentAssumption DEF ElementsOf
    <2>2. Has(e, "set_price_source", x)
      BY <1>2, <2>1, HasTask
    <2> QED
      BY <1>6, <2>2
  <1> QED
    BY <1>7, <1>8, <1>9

LEMMA CompleteImplies == Invariant /\ Complete => DoneMeansWired
  <1> SUFFICES ASSUME Invariant, Complete, pc = Done PROVE DoneMeansWired
    BY DEF DoneMeansWired
  <1>1. Len(Script) \in Nat /\ Len(Script) >= 6 /\ pc = Len(Script) + 1
    BY ScriptTasks DEF Done
  <1>2. /\ "address-provider" \in DOMAIN storage.addresses
        /\ "lending" \in DOMAIN storage.addresses
        /\ "oracle" \in DOMAIN storage.addresses
    BY <1>1 DEF Invariant, Instantiated
  <1>3. ASSUME NEW kind, NEW name, Has(Script, kind, name)
        PROVE  HasEffect([kind |-> kind, name |-> name], storage, chain)
    <2>1. PICK i \in 1 .. Len(Script) : Script[i] = [kind |-> kind, name |-> name]
      BY <1>3, Zenon DEF Has
    <2>2. i \in 1 .. pc - 1
      BY <1>1
    <2> QED
      BY <2>1, <2>2, Zenon DEF Complete, Progress
  <1>4. ASSUME NEW type \in AddressType
        PROVE  /\ type \in DOMAIN chain[storage.addresses["address-provider"]].addresses
               /\ type \in ContractName =>
                    chain[storage.addresses["address-provider"]].addresses[type]
                        = storage.addresses[type]
    <2>1. HasEffect([kind |-> "set_address", name |-> type], storage, chain)
      BY <1>3, ScriptHas
    <2> QED
      BY <2>1 DEF HasEffect
  <1>5. ASSUME NEW d \in ElementsOf(Assets)
        PROVE  d \in chain[storage.addresses["lending"]].markets
    <2>1. HasEffect([kind |-> "init_asset", name |-> d], storage, chain)
      BY <1>3, ScriptHas
    <2> QED
      BY <2>1 DEF HasEffect
  <1>6. ASSUME NEW d \in ElementsOf(OracleConfigs)
        PROVE  d \in chain[storage.addresses["oracle"]].price_sources
    <2>1. HasEffect([kind |-> "set_price_source", name |-> d], storage, chain)
      BY <1>3, ScriptHas
    <2> QED
      BY <2>1 DEF HasEffect
  <1>7. chain[storage.addresses["lending"]].address_provider
            = storage.addresses["address-provider"]
    BY <1>2 DEF Complete, Linked
  <1>8. /\ chain[storage.addresses["address-provider"]].addresses["lending"]
            = storage.addresses["lending"]
        /\ chain[storage.addresses["address-provider"]].addresses["oracle"]
            = storage.addresses["oracle"]
    BY <1>4 DEF AddressType, ContractName
  <1> QED
    BY <1>4, <1>5, <1>6, <1>7, <1>8 DEF DoneMeansWired, Contract

-----------------------------------------------------------------------------

\* What the script keeps in memory and in its file has the types that its tasks
\* rely on: addresses of existing contracts, each of the kind it is kept for.
THEOREM DeploymentTypeCorrect == Spec => []DeploymentTypeOK
  <1>1. Init => Invariant
    BY InvariantInit
  <1>2. Invariant /\ [Next]_vars => Invariant'
    BY InvariantStep
  <1>3. Invariant => DeploymentTypeOK
    BY InvariantImplies
  <1> QED
    BY <1>1, <1>2, <1>3, PTL DEF Spec

\* For all assets, oracle configurations and multisigs, and however often calls
\* fail, replies are lost and the process is killed, what storage.ts and its
\* file mark as done is done, on the contracts that they name.
THEOREM MarksAlwaysTrue == Spec => []MarksAreTrue
  <1>1. Init => Invariant
    BY InvariantInit
  <1>2. Invariant /\ [Next]_vars => Invariant'
    BY InvariantStep
  <1>3. Invariant => MarksAreTrue
    BY InvariantImplies
  <1> QED
    BY <1>1, <1>2, <1>3, PTL DEF Spec

\* For all assets, oracle configurations and multisigs, a script that comes to
\* its end leaves the contracts wired together, however many earlier runs failed,
\* lost replies or were killed at any of its tasks.
THEOREM DoneAlwaysWired == Spec => []DoneMeansWired
  <1>1. Init => Invariant /\ Complete
    BY InvariantInit, CompleteInit
  <1>2. Invariant /\ Complete /\ [Next]_vars => (Invariant /\ Complete)'
    BY InvariantStep, CompleteStep
  <1>3. Invariant /\ Complete => DoneMeansWired
    BY CompleteImplies
  <1> QED
    BY <1>1, <1>2, <1>3, PTL DEF Spec
=============================================================================
