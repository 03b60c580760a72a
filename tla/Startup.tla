---- MODULE Startup ----
(***************************************************************************)
(* deploy.sh and the start of the services it brings up: the migrate job,  *)
(* the schema sync of every service, RabbitService.onModuleInit with the   *)
(* declarations of assertTopology, and the restarts of Docker when any of  *)
(* it fails.  The database and the broker come and go.  The services of a  *)
(* former deployment may still run, and be restarted, until compose up     *)
(* replaces them one by one.                                               *)
(***************************************************************************)
EXTENDS Integers, Sequences

CONSTANTS Services,             \* orders-api and worker
          Servers,              \* those with an HTTP server: orders-api
          RetryDelay,           \* ORDERS_RETRY_DELAY_MS
          OldDelays,            \* the RetryDelay of a former deployment, None without
          MigrateAttempts,      \* DB_CONNECT_RETRIES
          DatabaseAttempts,     \* TypeOrmModule's retryAttempts
          MaxOutages,           \* bound: how often the database or the broker stops
          None

ASSUME StartupAssumption ==
    /\ Services # {} /\ Servers \subseteq Services
    /\ None \in OldDelays /\ RetryDelay # None
    /\ MigrateAttempts \in Nat \ {0} /\ DatabaseAttempts \in Nat \ {0}
    /\ MaxOutages \in Nat

VARIABLES deploy,       \* where deploy.sh is
          tries,        \* attempts of the migrate job
          schema,       \* the deployment whose entities the tables are of
          replaced,     \* services that compose up has created anew
          databaseUp, brokerUp,
          declared,     \* what exists in the broker
          delay,        \* the TTL of the retry queue
          pc,           \* where each service is
          attempts,     \* its attempts to initialize the DataSource
          step,         \* its next declaration
          outages

deployVars  == <<deploy, tries, replaced>>
outsideVars == <<databaseUp, brokerUp, outages>>
brokerVars  == <<declared, delay>>
serviceVars == <<pc, attempts, step>>
vars == <<deployVars, schema, outsideVars, brokerVars, serviceVars>>

Places == {"off", "database", "broker", "topology", "serving", "cutOff", "exited"}

\* The declarations of assertTopology; a binding is named after its routing
\* key.
Declarations == <<"orders.exchange", "process queue", "orders.process",
                  "retry queue", "orders.retry", "dead letter queue", "orders.dlq">>

Topology == {Declarations[i] : i \in DOMAIN Declarations}

\* A former deployment was stopped, or its services run on: they serve, are
\* about to be restarted, or have lost their channel to a broker that stopped.
Stopped == [s \in Services |-> "off"]
Running == {places \in [Services -> {"serving", "cutOff", "exited"}] :
                \A s \in Services : /\ places[s] = "serving" => brokerUp
                                    /\ places[s] = "cutOff" => s \in Servers}

Init ==
    /\ deploy = "infrastructure" /\ tries = 0
    /\ replaced = {}
    /\ databaseUp \in BOOLEAN /\ brokerUp \in BOOLEAN
    /\ delay \in OldDelays
    /\ declared = IF delay = None THEN {} ELSE Topology
    /\ schema = IF delay = None THEN "none" ELSE "former"
    /\ pc \in IF delay = None THEN {Stopped} ELSE {Stopped} \cup Running
    /\ attempts = [s \in Services |-> 0]
    /\ step = [s \in Services |-> 1]
    /\ outages = 0

Go(s, place) == pc' = [pc EXCEPT ![s] = place]

-----------------------------------------------------------------------------
(* deploy.sh and the migrate job.                                          *)

\* Mutant: the script goes on after a failed job.
DespiteFailure == "started"

\* set -e
AfterFailure == "failed"

\* compose run waits until the database and the broker are healthy, for a
\* while.
AwaitInfrastructure ==
    /\ deploy = "infrastructure"
    /\ deploy' = IF databaseUp /\ brokerUp THEN "migrating" ELSE AfterFailure
    /\ UNCHANGED <<tries, replaced, schema, outsideVars, brokerVars, serviceVars>>

\* The job synchronizes the schema with the entities of the new image.
Migrate ==
    /\ deploy = "migrating"
    /\ IF databaseUp
       THEN /\ schema' = "current"
            /\ deploy' = "started"
            /\ UNCHANGED tries
       ELSE /\ tries' = tries + 1
            /\ deploy' = IF tries' = MigrateAttempts THEN AfterFailure ELSE deploy
            /\ UNCHANGED schema
    /\ UNCHANGED <<replaced, outsideVars, brokerVars, serviceVars>>

\* A new process: nothing attempted, nothing declared.
Boots(s) ==
    /\ Go(s, "database")
    /\ attempts' = [attempts EXCEPT ![s] = 0]
    /\ step' = [step EXCEPT ![s] = 1]
    /\ UNCHANGED <<schema, outsideVars, brokerVars>>

\* docker compose up stops the container of the former image, if there is one,
\* wherever its service is, and starts one of the new image.  (It would leave a
\* container of the same image and environment alone: nothing is deployed then.)
Replace(s) ==
    /\ deploy = "started"
    /\ s \notin replaced
    /\ replaced' = replaced \cup {s}
    /\ Boots(s)
    /\ UNCHANGED <<deploy, tries>>

\* Mutant: a failed bootstrap is caught and the process stays.
NeverAgain(s) == FALSE

\* restart: unless-stopped, for either image.
MayRestart(s) == pc[s] = "exited"

Restart(s) ==
    /\ MayRestart(s)
    /\ Boots(s)
    /\ UNCHANGED deployVars

-----------------------------------------------------------------------------
(* The bootstrap of a service.                                             *)

\* Mutant: the new image leaves the schema to the migrate job.
LeftToMigrate(s) == IF s \in replaced THEN schema ELSE "former"

\* synchronize: true alters the tables to the entities of the service's image.
Synchronized(s) == IF s \in replaced THEN "current" ELSE "former"

\* TypeOrmModule: initialize with synchronize, a few times, then give up.
InitializeDatabase(s) ==
    /\ pc[s] = "database"
    /\ IF databaseUp
       THEN /\ schema' = Synchronized(s)
            /\ Go(s, "broker")
            /\ attempts' = [attempts EXCEPT ![s] = 0]
       ELSE /\ IF attempts[s] + 1 = DatabaseAttempts
               THEN Go(s, "exited") /\ attempts' = [attempts EXCEPT ![s] = 0]
               ELSE attempts' = [attempts EXCEPT ![s] = @ + 1] /\ UNCHANGED pc
            /\ UNCHANGED schema
    /\ UNCHANGED <<deployVars, outsideVars, brokerVars, step>>

\* RabbitService.onModuleInit; a failure ends the process.
ConnectBroker(s) ==
    /\ pc[s] = "broker"
    /\ Go(s, IF brokerUp THEN "topology" ELSE "exited")
    /\ UNCHANGED <<deployVars, schema, outsideVars, brokerVars, attempts, step>>

\* The retry queue of a former deployment has the TTL its services declare.
DelayOf(s) == IF s \in replaced THEN RetryDelay ELSE delay

\* A queue that exists with another TTL is refused and the channel closed.
Refused(s, declaration) ==
    declaration = "retry queue" /\ delay \notin {None, DelayOf(s)}

\* Mutant: assertTopology is not awaited.
AtOnce(s) == TRUE

LastDeclaration(s) == step[s] = Len(Declarations)

\* One declaration of assertTopology and its answer.  After the last one the
\* API listens, the worker consumes.
Declare(s) ==
    /\ pc[s] = "topology"
    /\ LET declaration == Declarations[step[s]] IN
       \/ /\ Refused(s, declaration)
          /\ Go(s, "exited")
          /\ step' = [step EXCEPT ![s] = 1]
          /\ UNCHANGED brokerVars
       \/ /\ ~ Refused(s, declaration)
          /\ declared' = declared \cup {declaration}
          /\ delay' = IF declaration = "retry queue" THEN DelayOf(s) ELSE delay
          /\ IF LastDeclaration(s)
             THEN Go(s, "serving") /\ step' = [step EXCEPT ![s] = 1]
             ELSE step' = [step EXCEPT ![s] = @ + 1] /\ UNCHANGED pc
    /\ UNCHANGED <<deployVars, schema, outsideVars, attempts>>

-----------------------------------------------------------------------------
(* Outages.  The broker's queues are durable.                              *)

DatabaseStops ==
    /\ databaseUp /\ outages < MaxOutages
    /\ databaseUp' = FALSE
    /\ outages' = outages + 1
    /\ UNCHANGED <<deployVars, schema, brokerUp, brokerVars, serviceVars>>

\* An HTTP server keeps a process alive.
Survives(s, inOrder) == inOrder /\ s \in Servers

\* A lost socket raises an error event nobody listens to, and the process
\* ends.  A shutdown in order only closes the channel: a pending declaration
\* fails, a process with an HTTP server goes on without its channel, and one
\* without has nothing left to do and ends.
BrokerStops(inOrder) ==
    /\ brokerUp /\ outages < MaxOutages
    /\ brokerUp' = FALSE
    /\ outages' = outages + 1
    /\ pc' = [s \in Services |->
                IF pc[s] \notin {"topology", "serving"} THEN pc[s]
                ELSE IF pc[s] = "serving" /\ Survives(s, inOrder) THEN "cutOff"
                ELSE "exited"]
    /\ step' = [s \in Services |-> 1]
    /\ UNCHANGED <<deployVars, schema, databaseUp, brokerVars, attempts>>

DatabaseComesUp ==
    /\ ~ databaseUp /\ databaseUp' = TRUE
    /\ UNCHANGED <<deployVars, schema, brokerUp, outages, brokerVars, serviceVars>>

BrokerComesUp ==
    /\ ~ brokerUp /\ brokerUp' = TRUE
    /\ UNCHANGED <<deployVars, schema, databaseUp, outages, brokerVars, serviceVars>>

-----------------------------------------------------------------------------

Boot(s) == InitializeDatabase(s) \/ ConnectBroker(s) \/ Declare(s)

Next ==
    \/ AwaitInfrastructure \/ Migrate
    \/ \E s \in Services : Replace(s) \/ Restart(s) \/ Boot(s)
    \/ DatabaseStops \/ DatabaseComesUp
    \/ BrokerComesUp \/ \E inOrder \in BOOLEAN : BrokerStops(inOrder)

Spec == Init /\ [][Next]_vars

(* The script and the services go on, Docker restarts what ended, and the  *)
(* database and the broker come up in the end.                             *)
Fairness ==
    /\ WF_vars(AwaitInfrastructure) /\ WF_vars(Migrate)
    /\ \A s \in Services : WF_vars(Replace(s)) /\ WF_vars(Restart(s)) /\ WF_vars(Boot(s))
    /\ WF_vars(DatabaseComesUp) /\ WF_vars(BrokerComesUp)

FairSpec == Spec /\ Fairness

-----------------------------------------------------------------------------
(* Properties.                                                             *)

\* Every variable has its type.
TypeOK ==
    /\ deploy \in {"infrastructure", "migrating", "started", "failed"}
    /\ tries \in 0 .. MigrateAttempts
    /\ replaced \subseteq Services
    /\ schema \in {"none", "former", "current"}
    /\ databaseUp \in BOOLEAN /\ brokerUp \in BOOLEAN
    /\ declared \subseteq Topology
    /\ delay \in OldDelays \cup {RetryDelay}
    /\ pc \in [Services -> Places]
    /\ attempts \in [Services -> 0 .. DatabaseAttempts]
    /\ step \in [Services -> DOMAIN Declarations]
    /\ outages \in 0 .. MaxOutages

\* A service that has been started finds tables, so that the services never
\* race to create them: the migrate job has done so before the first starts.
SchemaIsMigrated == (\E s \in Services : pc[s] # "off") => schema # "none"

\* Once every service is of the new image and through its initialization, the
\* tables are those of its entities, although services of the former one that
\* restarted after the migrate job, and beside new services that served
\* already, have put back their own.
SchemaFitsServices ==
    (\A s \in Services : s \in replaced /\ pc[s] \notin {"database", "exited"})
        => schema = "current"

\* A message finds its queue: while a service publishes or consumes, the
\* whole topology exists, whichever service declared which part of it.
TrafficFindsTopology ==
    (\E s \in Services : pc[s] = "serving") => declared = Topology

\* Every service ends up serving, whatever was down when it started or stops
\* later, unless the deployment failed, a former one left a retry queue with
\* another delay, or a shutdown of the broker cut the API off, which nothing
\* notices.
EveryServiceServes ==
    <>[](\/ deploy = "failed"
         \/ delay \notin {None, RetryDelay}
         \/ \A s \in Services : \/ pc[s] = "serving"
                                \/ pc[s] = "cutOff" /\ s \in Servers)

====
