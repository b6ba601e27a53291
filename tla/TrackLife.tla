------------------------------ MODULE TrackLife ------------------------------
(***************************************************************************)
(* What the indexing pipeline promises about a track, without its messages,*)
(* caches, uploads and retries: a track in the table is wanted, stored,    *)
(* refused after MaxStrikes rejections, or banned as too long, which is    *)
(* for ever; it is indexed only with its vectors in place.  IndexPipeline  *)
(* implements it.                                                          *)
(***************************************************************************)
EXTENDS Naturals

CONSTANTS Tracks,
          MaxStrikes  \* at least 1: IndexAssumption

VARIABLES stage,    \* where the file of a track stands
          strikes,  \* rejections counted since the last success, up to MaxStrikes
          vectors,  \* the tracks whose vectors are in the index
          indexed   \* the tracks marked as indexed

lifeVars == <<stage, strikes, vectors, indexed>>

Stages == {"absent", "wanted", "stored", "refused", "banned"}

LifeInit ==
  /\ stage = [t \in Tracks |-> "absent"]
  /\ strikes = [t \in Tracks |-> 0]
  /\ vectors = {}
  /\ indexed = {}

To(t, s, n) == stage' = [stage EXCEPT ![t] = s] /\ strikes' = [strikes EXCEPT ![t] = n]

Add(t)    == stage[t] = "absent" /\ To(t, "wanted", 0)
Store(t)  == stage[t] \in {"wanted", "stored", "refused"} /\ \E n \in {0, strikes[t]} : To(t, "stored", n)
Lose(t)   == stage[t] \in {"stored", "refused"} /\ To(t, "wanted", strikes[t])
Retry(t)  == stage[t] = "refused" /\ To(t, "wanted", 0)
Ban(t)    == stage[t] # "absent" /\ To(t, "banned", strikes[t])

\* A rejected upload is a strike only against a track that is wanted, and only
\* the last strike refuses it.
Strike(t) ==
  /\ stage[t] = "wanted"
  /\ IF strikes[t] + 1 >= MaxStrikes THEN To(t, "refused", MaxStrikes)
                                     ELSE To(t, "wanted", strikes[t] + 1)

Embed(t) == vectors' = vectors \cup {t} /\ UNCHANGED <<stage, strikes, indexed>>

\* The mark comes after the vectors.
Index(t) ==
  /\ stage[t] # "absent" /\ t \in vectors
  /\ indexed' = indexed \cup {t}
  /\ UNCHANGED <<stage, strikes, vectors>>

\* A ban takes the mark back.
Unindex(t) == Ban(t) /\ indexed' = indexed \ {t} /\ UNCHANGED vectors

LifeNext ==
  \E t \in Tracks :
    \/ (Add(t) \/ Store(t) \/ Lose(t) \/ Retry(t) \/ Strike(t)) /\ UNCHANGED <<vectors, indexed>>
    \/ Embed(t) \/ Index(t) \/ Unindex(t)

LifeSpec == LifeInit /\ [][LifeNext]_lifeVars

----------------------------------------------------------------------------
\* A track is marked as indexed only while its vectors are in the index: a
\* reader of the mark finds them.
IndexedHasVectors == indexed \subseteq vectors

\* A refused track has had all its strikes.
RefusedIsStruck == \A t \in Tracks : stage[t] = "refused" => strikes[t] = MaxStrikes

\* Nothing brings back the file of a track that is too long.
StaysBanned   == \A t \in Tracks : stage[t] = "banned" => stage'[t] = "banned"
BannedForGood == [][StaysBanned]_lifeVars
=============================================================================
