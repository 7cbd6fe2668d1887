---------------------------- MODULE CausalStore ----------------------------
(***************************************************************************)
(* What the struct stores of a group of documents promise, whatever the    *)
(* order in which updates arrive: a document only ever grows, by sets of   *)
(* structs that bring everything they depend on, so that a state vector    *)
(* says all there is to say about what a document holds.  Module YDoc      *)
(* implements this specification (YDoc!Causal).                            *)
(***************************************************************************)
EXTENDS StructIds

VARIABLES
  made,   \* the structs created so far
  dep,    \* dep[i]: the structs that struct i needs to be integrated
  have,   \* have[c]: the structs integrated in the document of c
  dead    \* dead[c]: those of them that are deleted

cvars == <<made, dep, have, dead>>

CInit ==
  /\ made = {}
  /\ dep = [i \in Id |-> {}]
  /\ have = [c \in Client |-> {}]
  /\ dead = [c \in Client |-> {}]

(* Deletions only accumulate, among the structs the document holds. *)
Kill(c) ==
  /\ dead[c] \subseteq dead'[c] /\ dead'[c] \subseteq have'[c]
  /\ dead' = [dead EXCEPT ![c] = dead'[c]]

(* A local transaction creates struct i at the next clock of its own document *)
(* (it asks no one whether the ID is taken), anchored on structs it holds.    *)
Write(c, i) ==
  /\ i[1] = c /\ i \notin have[c] /\ Earlier(i) \subseteq have[c]
  /\ made' = made \cup {i}
  /\ \E D \in SUBSET have[c] : dep' = [dep EXCEPT ![i] = D \cup Earlier(i)]
  /\ have' = [have EXCEPT ![c] = @ \cup {i}]
  /\ Kill(c)

(* An update is applied, or a local transaction only deletes: structs that    *)
(* others made come in, none without the structs it depends on.               *)
Absorb(c) ==
  /\ UNCHANGED <<made, dep>>
  /\ have[c] \subseteq have'[c] /\ have'[c] \subseteq have[c] \cup made
  /\ \A i \in have'[c] \ have[c] : dep[i] \subseteq have'[c]
  /\ have' = [have EXCEPT ![c] = have'[c]]
  /\ Kill(c)

CNext == \E c \in Client : Absorb(c) \/ \E i \in Id : Write(c, i)

CSpec == CInit /\ [][CNext]_cvars

----------------------------------------------------------------------------

CTypeOK ==
  /\ made \subseteq Id
  /\ dep \in [Id -> SUBSET Id]
  /\ have \in [Client -> SUBSET Id]
  /\ dead \in [Client -> SUBSET Id]
  /\ \A c \in Client : dead[c] \subseteq have[c]

(* No document holds a struct without its origins, its container and all the  *)
(* earlier structs of its client (tryIntegrate, decodeAndPark).               *)
DependencyClosed ==
  \A c \in Client : \A i \in have[c] :
    i \in made /\ dep[i] \cup Earlier(i) \subseteq have[c]

(* Every struct is in the document of its author. *)
AuthorHolds == \A i \in made : i[1] \in Client /\ i \in have[i[1]]

(* An ID names one struct for ever: no clock is used twice, although every    *)
(* client takes its next clock from its own document alone.                   *)
ImmutableStructs == [][made \subseteq made' /\ \A i \in made : dep'[i] = dep[i]]_cvars

(* Document c holds all that state vector sv stands for: it is the vector of  *)
(* c, or one that c sent earlier.                                             *)
Covers(c, sv) == \A i \in Id : i[2] < sv[i[1]] => i \in have[c]

(* encodeV1Locked's choice of structs for a peer with state vector sv. *)
Reply(s, sv) == {i \in have[s] : i[2] >= sv[i[1]]}

(* A reply to a state vector brings the peer all that it lacks, and the peer  *)
(* can absorb it whole, at once, however far either document has moved since  *)
(* the peer sent the vector.                                                  *)
ReplyComplete ==
  \A s, c \in Client : \A sv \in [Client -> Clock \cup {n + 1 : n \in Clock}] :
    Covers(c, sv) =>
      /\ have[c] \cup Reply(s, sv) = have[c] \cup have[s]
      /\ \A i \in Reply(s, sv) : dep[i] \subseteq have[c] \cup Reply(s, sv)

============================================================================
