----------------------------- MODULE Throughput -----------------------------
(***************************************************************************)
(* Bytes per process and per connection: the sampler's thread              *)
(* (collectors/bandwidth.py) and what it puts on edges                     *)
(* (engine/enrichment.py).                                                 *)
(*                                                                         *)
(* Counters are cumulative per process number; a number may be taken by a  *)
(* new process, which counts from zero, and a sample need not report every *)
(* process.  Abstracted: one direction stands for bytes in and out, the    *)
(* bytes since the last sample for the rate; a process has one connection. *)
(* The sum a row shows of its processes is left out.                       *)
(***************************************************************************)
EXTENDS Lists

CONSTANTS
  Pids,
  MostBytes  \* bound: the bytes of a behaviour

Backends == {"nettop", "ss"}

ASSUME ThroughputAssumption == MostBytes \in Nat

VARIABLES
  backend,      \* nettop or ss, for the life of the program
  enabled,      \* BandwidthSampler.enabled
  connections,  \* bandwidth.connections
  counter,      \* what the system counts for the process of each number
  last,         \* _last
  rates,        \* _rates
  flowLast,     \* _flow_last
  flowRates,    \* _flow_rates
  edgeHistory,  \* EngineBase._edge_history: its edges
  total         \* history: the bytes moved under each number

sampler == <<enabled, last, rates, flowLast, flowRates>>
throughputVars == <<backend, connections, counter, sampler, edgeHistory, total>>

-----------------------------------------------------------------------------
MoveBytes(p) ==
  /\ total[p] < MostBytes
  /\ counter' = [counter EXCEPT ![p] = @ + 1]
  /\ total' = [total EXCEPT ![p] = @ + 1]
  /\ UNCHANGED <<backend, connections, sampler, edgeHistory>>

\* Another process takes the number.
TakeOver(p) ==
  /\ counter[p] > 0
  /\ counter' = [counter EXCEPT ![p] = 0]
  /\ UNCHANGED <<backend, connections, sampler, edgeHistory, total>>

SetConnections ==
  /\ connections' = ~connections
  /\ UNCHANGED <<backend, counter, sampler, edgeHistory, total>>

-----------------------------------------------------------------------------
\* The counters of a sample, with the history's totals at that time.
Taken(reported) == [p \in reported |-> [bytes |-> counter[p], of |-> total[p]]]

\* ingest: a rate needs an earlier sample that is not larger.
Measured(was, reads) ==
  [p \in {q \in DOMAIN reads \cap DOMAIN was : reads[q].bytes >= was[q].bytes}
     |-> [bytes |-> reads[p].bytes - was[p].bytes, of |-> reads[p].of - was[p].of]]

\* ingest_flows: the first sample of a connection shows it at rest.
MeasuredFlows(was, reads) ==
  Merged(Measured(was, reads), [p \in DOMAIN reads \ DOMAIN was |-> [bytes |-> 0, of |-> 0]])

SampleProcesses(reported, works) ==
  IF backend # "nettop" THEN UNCHANGED <<enabled, last, rates>>
  ELSE IF works THEN /\ rates' = Measured(last, Taken(reported))
                     /\ last' = Taken(reported)
                     /\ UNCHANGED enabled
  ELSE enabled' = FALSE /\ UNCHANGED <<last, rates>>

SampleFlows(reported, works) ==
  IF ~connections THEN /\ flowRates' = <<>>
                       /\ flowLast' = IF flowRates = <<>> THEN flowLast ELSE <<>>
  ELSE IF works THEN /\ flowRates' = MeasuredFlows(flowLast, Taken(reported))
                     /\ flowLast' = Taken(reported)
  ELSE UNCHANGED <<flowLast, flowRates>>

\* _sample_once: a nettop that fails ends the sample and what is shown of it.
SampleOnce(reported, works, flowing, flowsWork) ==
  /\ SampleProcesses(reported, works)
  /\ IF backend = "nettop" /\ ~works THEN UNCHANGED <<flowLast, flowRates>>
     ELSE SampleFlows(flowing, flowsWork)
  /\ UNCHANGED <<backend, connections, counter, edgeHistory, total>>

\* _attach_flows in a refresh: an edge keeps its history while it is there.
AttachFlows(edges) ==
  /\ edgeHistory' = IF connections THEN (edgeHistory \cap edges) \cup (edges \cap DOMAIN flowRates) ELSE {}
  /\ UNCHANGED <<backend, connections, counter, sampler, total>>

ThroughputInit ==
  /\ backend \in Backends /\ enabled = TRUE /\ connections \in BOOLEAN
  /\ counter = [p \in Pids |-> 0] /\ total = [p \in Pids |-> 0]
  /\ last = <<>> /\ rates = <<>> /\ flowLast = <<>> /\ flowRates = <<>> /\ edgeHistory = {}

ThroughputNext ==
  \/ \E p \in Pids : MoveBytes(p) \/ TakeOver(p)
  \/ SetConnections
  \/ \E reported, flowing \in SUBSET Pids, works, flowsWork \in BOOLEAN :
       SampleOnce(reported, works, flowing, flowsWork)
  \/ \E edges \in SUBSET Pids : AttachFlows(edges)

ThroughputSpec == ThroughputInit /\ [][ThroughputNext]_throughputVars

-----------------------------------------------------------------------------
\* The type of every variable.
ThroughputTypeOK ==
  /\ backend \in Backends /\ {enabled, connections} \subseteq BOOLEAN
  /\ counter \in [Pids -> 0..MostBytes] /\ total \in [Pids -> 0..MostBytes]
  /\ UNION {DOMAIN last, DOMAIN rates, DOMAIN flowLast, DOMAIN flowRates, edgeHistory} \subseteq Pids
  /\ DOMAIN rates \subseteq DOMAIN last

\* A rate never shows bytes that were not moved between the two samples it is
\* measured from, whoever takes over a number in between and whatever samples
\* fail or leave out.
NeverTooMuch ==
  /\ \A p \in DOMAIN rates : rates[p].bytes \in 0..rates[p].of
  /\ \A p \in DOMAIN flowRates : flowRates[p].bytes \in 0..flowRates[p].of

=============================================================================
