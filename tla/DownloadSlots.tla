--------------------------- MODULE DownloadSlots ---------------------------
(***************************************************************************)
(* What the download gate promises its callers, without saying how: every  *)
(* download that asked for a slot is either waiting or holds one, two      *)
(* holders never share a source, nobody is admitted above the limit that   *)
(* the last request configured, and a slot is never left unused while      *)
(* somebody who may take it waits.  DownloadGate implements this module.   *)
(***************************************************************************)
EXTENDS Integers, FiniteSets

CONSTANTS
    Downloads,  \* chapter ids, which are also the download ids
    SourceOf,   \* SourceOf[d]: the source key of download d
    Limits      \* values the concurrency setting may hand to the gate

VARIABLES
    limit,      \* how many downloads may hold a slot
    waiting,    \* downloads that asked and hold no slot yet
    held        \* downloads that hold a slot

slotVars == <<limit, waiting, held>>

SourcesOf(S) == {SourceOf[d] : d \in S}

(***************************************************************************)
(* The sets of waiting downloads that may be admitted together next to h   *)
(* under limit l: pairwise different sources, none of them busy, within    *)
(* the limit, and as many as possible.                                     *)
(***************************************************************************)
Admissible(w, h, l) ==
    {G \in SUBSET w :
        /\ \A d, e \in G : SourceOf[d] = SourceOf[e] => d = e
        /\ SourcesOf(G) \cap SourcesOf(h) = {}
        /\ G # {} => Cardinality(h) + Cardinality(G) <= l
        /\ \A d \in w \ G : \/ Cardinality(h) + Cardinality(G) >= l
                            \/ SourceOf[d] \in SourcesOf(h \cup G)}

Admit(w, h, l) ==
    \E G \in Admissible(w, h, l) :
        /\ limit' = l
        /\ waiting' = w \ G
        /\ held' = h \cup G

SlotsInit ==
    /\ limit = 1
    /\ waiting = {}
    /\ held = {}

Request(d, l) ==
    /\ d \notin waiting \cup held
    /\ Admit(waiting \cup {d}, held, IF l < 1 THEN 1 ELSE l)

Finish(d) ==
    /\ d \in held
    /\ Admit(waiting, held \ {d}, limit)

SlotsNext ==
    \/ \E d \in Downloads, l \in Limits : Request(d, l)
    \/ \E d \in Downloads : Finish(d)

SlotsSpec == SlotsInit /\ [][SlotsNext]_slotVars

=============================================================================
