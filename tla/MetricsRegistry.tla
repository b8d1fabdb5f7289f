--------------------------- MODULE MetricsRegistry ---------------------------
(***************************************************************************)
(* The instruments of opentelemetry/prometheus/metrics.cc by name.  The    *)
(* map of synchronous instruments owns them (unique_ptr) and callers get   *)
(* raw pointers; observable instruments are shared (shared_ptr).  Creating *)
(* an instrument of the SDK always makes a new object.                     *)
(***************************************************************************)
EXTENDS Naturals

CONSTANTS Names, MaxObjects   \* bound: synchronous instruments created in all

VARIABLES sync,      \* name -> the instrument the map owns, 0 if none
          observable,\* names in the map of observable instruments
          created,   \* number of synchronous instruments created
          live,      \* those that have not been freed
          pointers,  \* what callers were given: [name, object]
          destroyed  \* ~Metrics has run

metricsVars == <<sync, observable, created, live, pointers, destroyed>>

SyncTypes == {"UIntCounter", "DoubleCounter", "UIntGauge", "DoubleGauge",
              "UIntHistogram", "DoubleHistogram"}
ObservableTypes == {"IntCounter", "DoubleCounter", "IntGauge", "DoubleGauge",
                    "UIntHistogram", "DoubleHistogram"}
InstrumentType == SyncTypes \cup ObservableTypes

MetricsInit ==
  /\ sync = [n \in Names |-> 0]
  /\ observable = {}
  /\ created = 0
  /\ live = {}
  /\ pointers = {}
  /\ destroyed = FALSE

\* Mutant: m_syncInstruments[name] = std::move(instrument).
CreateByAssignment(t, n) ==
  /\ t \in SyncTypes /\ created < MaxObjects
  /\ created' = created + 1
  /\ pointers' = pointers \cup {[name |-> n, object |-> created']}
  /\ sync' = [sync EXCEPT ![n] = created']
  /\ live' = (live \ {sync[n]}) \cup {created'}
  /\ UNCHANGED <<observable, destroyed>>

\* insert() keeps an instrument that has the name already; the new one is then freed
\* with the pair it was moved into, and the caller gets a pointer to it all the same.
CreateSyncInstrument(t, n) ==
  /\ t \in SyncTypes /\ created < MaxObjects
  /\ created' = created + 1
  /\ pointers' = pointers \cup {[name |-> n, object |-> created']}
  /\ IF sync[n] = 0
     THEN /\ sync' = [sync EXCEPT ![n] = created']
          /\ live' = live \cup {created'}
     ELSE UNCHANGED <<sync, live>>
  /\ UNCHANGED <<observable, destroyed>>

\* erase() of a name that is not there does nothing.
DestroySyncInstrument(n) ==
  /\ sync' = [sync EXCEPT ![n] = 0]
  /\ live' = live \ {sync[n]}
  /\ UNCHANGED <<observable, created, pointers, destroyed>>

GetSyncInstrument(n) ==
  /\ sync[n] # 0
  /\ pointers' = pointers \cup {[name |-> n, object |-> sync[n]]}
  /\ UNCHANGED <<sync, observable, created, live, destroyed>>

\* The caller shares the instrument it gets, so that its life is the caller's affair.
CreateObservableInstrument(t, n) ==
  /\ t \in ObservableTypes
  /\ observable' = observable \cup {n}
  /\ UNCHANGED <<sync, created, live, pointers, destroyed>>

DestroyObservableInstrument(n) ==
  /\ observable' = observable \ {n}
  /\ UNCHANGED <<sync, created, live, pointers, destroyed>>

\* ~Metrics clears the synchronous instruments; the members go with the object.
Destruct ==
  /\ destroyed' = TRUE
  /\ sync' = [n \in Names |-> 0]
  /\ observable' = {}
  /\ live' = live \ {sync[n] : n \in Names}
  /\ UNCHANGED <<created, pointers>>

MetricsNext ==
  /\ ~destroyed
  /\ \/ \E n \in Names : \/ \E t \in InstrumentType : \/ CreateSyncInstrument(t, n)
                                                      \/ CreateObservableInstrument(t, n)
                         \/ DestroySyncInstrument(n)
                         \/ GetSyncInstrument(n)
                         \/ DestroyObservableInstrument(n)
     \/ Destruct

MetricsSpec == MetricsInit /\ [][MetricsNext]_metricsVars
-----------------------------------------------------------------------------
\* A pointer that was good stays good until its name is destroyed: no other call, in
\* particular no second CreateSyncInstrument of the name, frees what it points to.  The
\* second call itself returns a pointer that is dead already, and no other call does:
\* one is dead when it is handed out exactly if the name had another instrument then
\* (metrics.cc:94-96).
PointersDieByDestroyOnly ==
  [][/\ \A p \in pointers :
          p.object \in live /\ p.object \notin live' => sync'[p.name] = 0
     /\ \A p \in pointers' \ pointers :
          p.object \notin live' <=> sync[p.name] \notin {0, p.object}]_metricsVars
==============================================================================
