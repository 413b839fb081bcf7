------------------------ MODULE TemporaryCertificates ------------------------
(***************************************************************************)
(* createTemporaryTlsOptions and clearTemporaryTlsCache                    *)
(* (src/internal/certificates/temporary.ts): certificates for development, *)
(* generated once for each set of normalized options and shared by every   *)
(* caller, also by those that come while the generation is still running.  *)
(*                                                                         *)
(* Options are reduced to the key that normalization and JSON.stringify    *)
(* make of them.  A generation is named by the call that began it.         *)
(***************************************************************************)
EXTENDS Naturals, FiniteSets

CONSTANTS
  MaxCallers,   \* bound: calls of createTemporaryTlsOptions
  Options,      \* options as callers write them
  KeyOf,        \* the key normalization gives them
  MaxClears     \* bound: calls of clearTemporaryTlsCache

\* Numbered in the order in which they call; 0 is none of them.
Callers == 1..MaxCallers
Keys == {KeyOf[o] : o \in Options}

ASSUME CertificateAssumption ==
  MaxCallers \in Nat /\ MaxClears \in Nat /\ DOMAIN KeyOf = Options

VARIABLES
  tlsCache,     \* temporaryTlsCache: the generation under each key
  generations,  \* what became of the generation each call began
  callers,      \* the calls: key, the generation each awaits, phase
  clears,       \* calls of clearTemporaryTlsCache so far
  removals      \* history: of each key, the clears and the failures of overtaken generations

tlsVars == <<tlsCache, generations, callers, clears, removals>>

TlsTypeOK ==
  /\ tlsCache \in [Keys -> 0..MaxCallers]
  /\ generations \in [Callers -> {"none", "running", "made", "failed"}]
  /\ callers \in [Callers -> [key : Keys \cup {"none"}, uses : 0..MaxCallers, cached : BOOLEAN,
                              phase : {"idle", "awaiting", "told"}, removals : Nat]]
  /\ clears \in 0..MaxClears
  /\ removals \in [Keys -> Nat]

TlsInit ==
  /\ tlsCache = [k \in Keys |-> 0]
  /\ generations = [c \in Callers |-> "none"]
  /\ callers = [c \in Callers |->
       [key |-> "none", uses |-> 0, cached |-> FALSE, phase |-> "idle", removals |-> 0]]
  /\ clears = 0
  /\ removals = [k \in Keys |-> 0]

Called(c, o, cached, uses) ==
  /\ callers[c].phase = "idle"
  /\ \A b \in Callers : b < c => callers[b].phase # "idle"
  /\ callers' = [callers EXCEPT ![c] =
       [key |-> KeyOf[o], uses |-> uses, cached |-> cached, phase |-> "awaiting",
        removals |-> removals[KeyOf[o]]]]
  /\ UNCHANGED <<clears, removals>>

\* options.cache is false: a certificate of its own.
CreateUncached(c, o) ==
  /\ Called(c, o, FALSE, c)
  /\ generations' = [generations EXCEPT ![c] = "running"]
  /\ UNCHANGED tlsCache

CreateShared(c, o) ==
  /\ tlsCache[KeyOf[o]] # 0
  /\ Called(c, o, TRUE, tlsCache[KeyOf[o]])
  /\ UNCHANGED <<tlsCache, generations>>

\* The promise is in the cache before the generation has done anything.
CreateOwned(c, o) ==
  /\ tlsCache[KeyOf[o]] = 0
  /\ Called(c, o, TRUE, c)
  /\ generations' = [generations EXCEPT ![c] = "running"]
  /\ tlsCache' = [tlsCache EXCEPT ![KeyOf[o]] = c]

\* selfsigned.generate makes the certificate, or fails.
Generated(g) ==
  /\ generations[g] = "running"
  /\ \E outcome \in {"made", "failed"} : generations' = [generations EXCEPT ![g] = outcome]
  /\ UNCHANGED <<tlsCache, callers, clears, removals>>

Owns(c) == callers[c].cached /\ callers[c].uses = c

\* Mutant: a failure stays in the cache.
Told_Kept(c) ==
  /\ callers[c].phase = "awaiting"
  /\ generations[callers[c].uses] \in {"made", "failed"}
  /\ callers' = [callers EXCEPT ![c].phase = "told"]
  /\ UNCHANGED <<tlsCache, generations, clears, removals>>

\* The catch block of the call that began the generation: whatever is in the cache by now.
Told(c) ==
  LET g == callers[c].uses
      k == callers[c].key
  IN
  /\ callers[c].phase = "awaiting"
  /\ generations[g] \in {"made", "failed"}
  /\ callers' = [callers EXCEPT ![c].phase = "told"]
  /\ tlsCache' = IF Owns(c) /\ generations[g] = "failed" THEN [tlsCache EXCEPT ![k] = 0] ELSE tlsCache
  /\ removals' =
       IF Owns(c) /\ generations[g] = "failed" /\ tlsCache[k] # g
       THEN [removals EXCEPT ![k] = @ + 1] ELSE removals
  /\ UNCHANGED <<generations, clears>>

Clear ==
  /\ clears < MaxClears
  /\ clears' = clears + 1
  /\ tlsCache' = [k \in Keys |-> 0]
  /\ removals' = [k \in Keys |-> removals[k] + 1]
  /\ UNCHANGED <<generations, callers>>

TlsNext ==
  \/ \E c \in Callers :
       \/ \E o \in Options : CreateUncached(c, o) \/ CreateShared(c, o) \/ CreateOwned(c, o)
       \/ Generated(c) \/ Told(c)
  \/ Clear

TlsSpec == TlsInit /\ [][TlsNext]_tlsVars

(***************************************************************************)
(* Properties                                                              *)
(***************************************************************************)
\* Two callers with the same options share one certificate, whichever of them came while
\* it was generated, unless the cache was cleared between their calls, or a generation that
\* a clear had overtaken failed between them and took its successor's entry with it.  A
\* generation that failed is in the cache only until the call that began it is told.
CertificateShared ==
  /\ \A c, d \in Callers :
       /\ callers[c].cached /\ callers[d].cached /\ callers[c].key = callers[d].key
       /\ callers[c].removals = callers[d].removals
       /\ generations[callers[c].uses] # "failed" /\ generations[callers[d].uses] # "failed"
       => callers[c].uses = callers[d].uses
  /\ \A k \in Keys : tlsCache[k] # 0 =>
       LET g == tlsCache[k] IN
       callers[g].key = k /\ (generations[g] = "failed" => callers[g].phase = "awaiting")
=============================================================================
