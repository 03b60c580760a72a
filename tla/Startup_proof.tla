---- MODULE Startup_proof ----
(***************************************************************************)
(* Proofs about Startup, for any services, delays, numbers of attempts and *)
(* outages.                                                                *)
(***************************************************************************)
EXTENDS Startup, TLAPS

USE DEF deployVars, outsideVars, brokerVars, serviceVars

-----------------------------------------------------------------------------
(* Type correctness.                                                       *)

LEMMA DeclarationsDomain == DOMAIN Declarations = 1 .. 7 /\ Len(Declarations) = 7
BY DEF Declarations

\* The last attempt has not failed yet.
CountInv ==
    /\ deploy # "failed" => tries < MigrateAttempts
    /\ \A s \in Services : attempts[s] < DatabaseAttempts

LEMMA TypeInit == Init => TypeOK /\ CountInv
BY DeclarationsDomain, StartupAssumption DEF Init, TypeOK, CountInv, Places, Stopped, Running

LEMMA TypeStep == TypeOK /\ CountInv /\ [Next]_vars => TypeOK' /\ CountInv'
<1> SUFFICES ASSUME TypeOK, CountInv, [Next]_vars PROVE TypeOK' /\ CountInv'
  OBVIOUS
<1> USE DEF TypeOK, CountInv, Places, Go
<1>1. CASE AwaitInfrastructure
  BY <1>1 DEF AwaitInfrastructure, AfterFailure
<1>2. CASE Migrate
  BY <1>2, StartupAssumption DEF Migrate, AfterFailure
<1>3. ASSUME NEW s \in Services, Replace(s) \/ Restart(s) PROVE TypeOK' /\ CountInv'
  BY <1>3, DeclarationsDomain, StartupAssumption DEF Replace, Restart, Boots
<1>4. ASSUME NEW s \in Services, InitializeDatabase(s) PROVE TypeOK' /\ CountInv'
  BY <1>4, StartupAssumption DEF InitializeDatabase, Synchronized
<1>5. ASSUME NEW s \in Services, ConnectBroker(s) PROVE TypeOK' /\ CountInv'
  BY <1>5, DeclarationsDomain DEF ConnectBroker
<1>6. ASSUME NEW s \in Services, Declare(s) PROVE TypeOK' /\ CountInv'
  <2>1. Declarations[step[s]] \in Topology
    BY DEF Topology
  <2>2. step[s] # 7 => step[s] + 1 \in 1 .. 7
    BY DeclarationsDomain
  <2>3. step' \in [Services -> 1 .. 7]
    <3>1. CASE step' = [step EXCEPT ![s] = 1]
      BY <3>1, DeclarationsDomain
    <3>2. CASE step' = [step EXCEPT ![s] = @ + 1] /\ ~ LastDeclaration(s)
      BY <2>2, <3>2, DeclarationsDomain DEF LastDeclaration
    <3> QED BY <1>6, <3>1, <3>2 DEF Declare
  <2>4. pc' \in [Services -> Places]
    BY <1>6 DEF Declare
  <2>5. declared' \subseteq Topology /\ delay' \in OldDelays \cup {RetryDelay}
    BY <1>6, <2>1 DEF Declare, DelayOf
  <2> QED BY <1>6, <2>3, <2>4, <2>5, DeclarationsDomain DEF Declare
<1>7. CASE DatabaseStops
  <2>1. outages' \in 0 .. MaxOutages
    BY <1>7, StartupAssumption DEF DatabaseStops
  <2> QED BY <1>7, <2>1 DEF DatabaseStops
<1>8. ASSUME NEW inOrder \in BOOLEAN, BrokerStops(inOrder) PROVE TypeOK' /\ CountInv'
  <2>1. outages' \in 0 .. MaxOutages
    BY <1>8, StartupAssumption DEF BrokerStops
  <2>2. pc' \in [Services -> Places]
    BY <1>8 DEF BrokerStops
  <2>3. step' \in [Services -> DOMAIN Declarations]
    BY <1>8, DeclarationsDomain DEF BrokerStops
  <2> QED BY <1>8, <2>1, <2>2, <2>3 DEF BrokerStops
<1>9. CASE DatabaseComesUp \/ BrokerComesUp
  BY <1>9 DEF DatabaseComesUp, BrokerComesUp
<1>10. CASE UNCHANGED vars
  BY <1>10 DEF vars
<1> QED BY <1>1, <1>2, <1>3, <1>4, <1>5, <1>6, <1>7, <1>8, <1>9, <1>10 DEF Next, Boot

\* Every variable of Startup keeps its type.
THEOREM StartupTypeCorrect == Spec => []TypeOK
<1>1. TypeOK /\ CountInv /\ [Next]_vars => (TypeOK /\ CountInv)'
  BY TypeStep
<1> QED BY TypeInit, <1>1, PTL DEF Spec

-----------------------------------------------------------------------------
(* The schema is there before the services, the topology before traffic.   *)

\* A service in its declarations has made all those before the next one; the
\* last service to be replaced has its initialization still to come.
OrderInv ==
    /\ deploy = "started" => schema # "none"
    /\ deploy # "started" => replaced = {}
    /\ \A s \in Services :
          /\ pc[s] # "off" => schema # "none"
          /\ pc[s] # "topology" => step[s] = 1
          /\ pc[s] = "topology" =>
                 \A i \in DOMAIN Declarations : i < step[s] => Declarations[i] \in declared
          /\ pc[s] = "serving" => declared = Topology
    /\ SchemaFitsServices

LEMMA OrderInit == Init => OrderInv
BY StartupAssumption DEF Init, OrderInv, Stopped, Running, SchemaFitsServices

LEMMA OrderStep == TypeOK /\ OrderInv /\ [Next]_vars => OrderInv'
<1> SUFFICES ASSUME TypeOK, OrderInv, [Next]_vars PROVE OrderInv'
  OBVIOUS
<1> USE DEF TypeOK, OrderInv, SchemaFitsServices, Go
<1>1. CASE AwaitInfrastructure
  BY <1>1 DEF AwaitInfrastructure, AfterFailure
<1>2. CASE Migrate
  BY <1>2 DEF Migrate, AfterFailure
<1>3. ASSUME NEW s \in Services, Replace(s) \/ Restart(s) PROVE OrderInv'
  <2>1. CASE Replace(s)
    BY <2>1, DeclarationsDomain DEF Replace, Boots
  <2>2. CASE Restart(s)
    BY <2>2, DeclarationsDomain DEF Restart, Boots, MayRestart
  <2> QED BY <1>3, <2>1, <2>2
<1>4. ASSUME NEW s \in Services, InitializeDatabase(s) PROVE OrderInv'
  <2>1. CASE databaseUp
    <3>1. /\ schema' = Synchronized(s) /\ pc'[s] = "broker"
          /\ \A t \in Services \ {s} : pc'[t] = pc[t]
          /\ UNCHANGED <<deploy, replaced, declared, step>>
      BY <1>4, <2>1 DEF InitializeDatabase
    <3>2. s \in replaced => schema' = "current"
      BY <3>1 DEF Synchronized
    <3>3. schema' # "none"
      BY <3>1 DEF Synchronized
    <3>4. SchemaFitsServices'
      BY <1>4, <3>1, <3>2
    <3>5. \A t \in Services : /\ pc'[t] # "topology" => step'[t] = 1
                              /\ pc'[t] = "topology" => pc[t] = "topology"
                              /\ pc'[t] = "serving" => pc[t] = "serving"
      BY <1>4, <3>1 DEF InitializeDatabase
    <3> QED BY <1>4, <3>1, <3>3, <3>4, <3>5
  <2>2. CASE ~ databaseUp
    BY <1>4, <2>2 DEF InitializeDatabase
  <2> QED BY <2>1, <2>2
<1>5. ASSUME NEW s \in Services, ConnectBroker(s) PROVE OrderInv'
  BY <1>5, DeclarationsDomain DEF ConnectBroker
<1>6. ASSUME NEW s \in Services, Declare(s) PROVE OrderInv'
  <2>1. CASE UNCHANGED brokerVars /\ Go(s, "exited")
    BY <1>6, <2>1 DEF Declare
  <2>2. CASE ~ Refused(s, Declarations[step[s]])
    <3>1. declared' = declared \cup {Declarations[step[s]]} /\ declared' \subseteq Topology
      BY <1>6, <2>2 DEF Declare, Topology
    <3>2. \A i \in DOMAIN Declarations : i < step[s] + 1 => Declarations[i] \in declared'
      <4>1. pc[s] = "topology" /\ step[s] \in 1 .. 7
        BY <1>6, DeclarationsDomain DEF Declare
      <4>2. \A i \in 1 .. 7 : i < step[s] + 1 => i < step[s] \/ i = step[s]
        BY <4>1
      <4> QED BY <3>1, <4>1, <4>2, DeclarationsDomain
    <3>3. CASE LastDeclaration(s)
      <4>1. declared' = Topology
        BY <3>1, <3>2, <3>3, DeclarationsDomain DEF LastDeclaration, Topology
      <4> QED BY <1>6, <2>2, <3>3, <4>1 DEF Declare
    <3>4. CASE ~ LastDeclaration(s)
      BY <1>6, <2>2, <3>1, <3>2, <3>4 DEF Declare
    <3> QED BY <3>3, <3>4
  <2> QED BY <1>6, <2>1, <2>2 DEF Declare
<1>7. CASE DatabaseStops
  BY <1>7 DEF DatabaseStops
<1>8. ASSUME NEW inOrder \in BOOLEAN, BrokerStops(inOrder) PROVE OrderInv'
  BY <1>8 DEF BrokerStops
<1>9. CASE DatabaseComesUp \/ BrokerComesUp
  BY <1>9 DEF DatabaseComesUp, BrokerComesUp
<1>10. CASE UNCHANGED vars
  BY <1>10 DEF vars
<1> QED BY <1>1, <1>2, <1>3, <1>4, <1>5, <1>6, <1>7, <1>8, <1>9, <1>10 DEF Next, Boot

LEMMA OrderAlways == Spec => []OrderInv
BY OrderInit, OrderStep, StartupTypeCorrect, PTL DEF Spec

\* However long the database is down and however often the services restart,
\* none of them finds the database without tables.
THEOREM SchemaIsMigratedFirst == Spec => []SchemaIsMigrated
<1>1. OrderInv => SchemaIsMigrated
  BY DEF OrderInv, SchemaIsMigrated
<1> QED BY <1>1, OrderAlways, PTL

\* However many services of the former deployment restart, and whenever, the
\* initialization of the last one that is replaced puts the tables right.
THEOREM SchemaFitsInTheEnd == Spec => []SchemaFitsServices
<1>1. OrderInv => SchemaFitsServices
  BY DEF OrderInv
<1> QED BY <1>1, OrderAlways, PTL

\* Whichever service declared which part of it, the topology is complete
\* while any of them publishes or consumes.
THEOREM TrafficHasTopology == Spec => []TrafficFindsTopology
<1>1. OrderInv => TrafficFindsTopology
  BY DEF OrderInv, TrafficFindsTopology
<1> QED BY <1>1, OrderAlways, PTL

====
