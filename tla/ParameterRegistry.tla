------------------------- MODULE ParameterRegistry -------------------------
(***************************************************************************)
(* What a search is computed under, and who changes it: the registries of  *)
(* parms/, the tables derived from them, contempt, the tablebases, and the *)
(* caches that outlive a command.  UCI commands run one at a time; a search*)
(* reads and stores beside them.                                           *)
(*                                                                         *)
(* A SHA-256 of a canonical file is that file: distinct files have distinct*)
(* digests.  A table computed from parameters is those parameters, and a   *)
(* cached result is the configuration it was computed under.  The window in*)
(* which a go has been accepted and the status is not yet Running is       *)
(* UciSession's matter (NoReconfiguration).                                *)
(***************************************************************************)
EXTENDS Integers, Sequences

CONSTANTS
  Registries,      \* the registries a file can name
  EvalRegistry,    \* eval-pilot-v1
  LmrRegistry,     \* search-lmr-v1, the one with a derived table
  Descriptors,     \* a registry's parameters: [name, default, min, max, step]
  Schema,          \* RegistryVersion
  Files,           \* what a file holds: [schema, registry, parameters]
  Contempts,       \* values of the two contempt options
  MaxContempt,     \* 100
  TableSets,       \* directories with tables
  NoTables         \* no tables loaded

ASSUME RegistryAssumption ==
  /\ EvalRegistry \in Registries /\ LmrRegistry \in Registries
  /\ EvalRegistry # LmrRegistry
  /\ NoTables \notin TableSets

\* The arrays of ParameterDescriptor in parms/: each name once.
Descriptor == [name : STRING, default : Int, min : Int, max : Int, step : Int]

ASSUME DescriptorAssumption ==
  /\ Schema \in Int /\ Registries \subseteq STRING
  /\ \A r \in Registries :
       /\ Descriptors[r] \in Seq(Descriptor)
       /\ \A i, j \in DOMAIN Descriptors[r] :
            Descriptors[r][i].name = Descriptors[r][j].name => i = j

\* What the JSON decoder lets through: it knows the fields and their types alone.
ParameterValue == [name : STRING, value : Int]
ParameterFile  == [schema : Int, registry : STRING, parameters : Seq(ParameterValue)]

ASSUME FileAssumption == Files \subseteq ParameterFile

VARIABLES
  parms,             \* the values in force: parms.Parms and parms.Search
  attackWeight,      \* eval: derived from the evaluation registry
  lmrReductions,     \* search: derived from the divisor
  parameterFilePath, \* "" or "file"
  parameterFileSHA,
  contempt,          \* Engine.Contempt
  repetition,        \* Engine.SearchRepetitionContempt
  tables,            \* the tables Fathom has open
  searching,         \* SearchStatus() = Running
  node,              \* the configurations read by the node being searched
  trans,             \* SG.Trans: configurations its entries were computed under
  evalHash           \* evalHash and pawnHash of the worker, likewise
registryVars == <<parms, attackWeight, lmrReductions, parameterFilePath, parameterFileSHA>>
engineVars   == <<contempt, repetition, tables>>
caches       == <<trans, evalHash>>
configurationVars == <<registryVars, engineVars, searching, node, caches>>

Values(parameters) == [i \in DOMAIN parameters |-> parameters[i].value]
Default(r) == [i \in DOMAIN Descriptors[r] |-> Descriptors[r][i].default]

DefaultParameterFile ==
  [schema |-> Schema, registry |-> EvalRegistry,
   parameters |-> [i \in DOMAIN Descriptors[EvalRegistry] |->
                     [name  |-> Descriptors[EvalRegistry][i].name,
                      value |-> Descriptors[EvalRegistry][i].default]]]

-----------------------------------------------------------------------------
(* parms/registry.go: reading and applying a file.                         *)

\* A bug: neither range nor step is looked at.
PairNamed(file, value) ==
  \E i \in DOMAIN Descriptors[file.registry] :
    Descriptors[file.registry][i].name = value.name

\* One pair of the loop over the file's parameters.
PairFits(file, value) ==
  \E i \in DOMAIN Descriptors[file.registry] :
    LET d == Descriptors[file.registry][i] IN
    /\ d.name = value.name
    /\ value.value >= d.min /\ value.value <= d.max
    /\ d.step > 0 /\ (value.value - d.min) % d.step = 0

Unseen(file) == \A i, j \in DOMAIN file.parameters :
                  file.parameters[i].name = file.parameters[j].name => i = j

Normalizes(file) ==
  /\ file.schema = Schema
  /\ file.registry \in Registries
  /\ Len(file.parameters) = Len(Descriptors[file.registry])
  /\ Unseen(file)
  /\ \A i \in DOMAIN file.parameters : PairFits(file, file.parameters[i])

\* Where the file gives the i-th parameter of its registry: ordered[i] is filled from there.
PlaceOf(file, i) ==
  CHOOSE j \in DOMAIN file.parameters : file.parameters[j].name = Descriptors[file.registry][i].name

\* In the order of the registry.
Normal(file) ==
  [file EXCEPT !.parameters =
     [i \in DOMAIN Descriptors[file.registry] |-> file.parameters[PlaceOf(file, i)]]]

ParameterFileSHA256(file) == Normal(file)

\* Only the registry that the file names.
ApplyParameterFile(file) ==
  parms' = [parms EXCEPT ![file.registry] = Values(Normal(file).parameters)]

Update == attackWeight' = parms'[EvalRegistry]
RefreshRuntimeParameters == lmrReductions' = parms'[LmrRegistry]
ClearSearchCaches == trans' = {} /\ evalHash' = {}

-----------------------------------------------------------------------------
(* uci.go:489, setParameterFile.                                           *)

\* A path.  With a search active, or a file that cannot be read or does not
\* normalize, an info string is all that comes of it.
LoadParameterFile(file) ==
  /\ ~searching
  /\ Normalizes(file)
  /\ ApplyParameterFile(Normal(file))
  /\ Update
  /\ RefreshRuntimeParameters
  /\ ClearSearchCaches
  /\ parameterFilePath' = "file"
  /\ parameterFileSHA' = ParameterFileSHA256(file)
  /\ UNCHANGED <<engineVars, searching, node>>

\* No path: the evaluation registry goes back to its defaults; the digest stays.
ResetParameterFile ==
  /\ ~searching
  /\ ApplyParameterFile(DefaultParameterFile)
  /\ Update
  /\ RefreshRuntimeParameters
  /\ ClearSearchCaches
  /\ parameterFilePath' = ""
  /\ UNCHANGED <<parameterFileSHA, engineVars, searching, node>>

-----------------------------------------------------------------------------
(* contempt.go and tablebase_config.go.                                    *)

DefaultSearchRepetitionContempt == 5

InRange(value) == value >= -MaxContempt /\ value <= MaxContempt

\* A bug: the status is not looked at.
SetContemptAnyTime(value) ==
  /\ InRange(value) /\ value # contempt
  /\ contempt' = value
  /\ trans' = {}
  /\ UNCHANGED <<registryVars, repetition, tables, searching, node, evalHash>>

SetContempt(value) ==
  /\ ~searching /\ InRange(value) /\ value # contempt
  /\ contempt' = value
  /\ trans' = {}
  /\ UNCHANGED <<registryVars, repetition, tables, searching, node, evalHash>>

SetSearchRepetitionContempt(value) ==
  /\ ~searching /\ InRange(value) /\ value # repetition
  /\ repetition' = value
  /\ trans' = {}
  /\ UNCHANGED <<registryVars, contempt, tables, searching, node, evalHash>>

\* fathom.SetPath closes the old tables before it looks for new ones: with an
\* empty path, a path without tables or no Fathom, none is left.
SetSyzygyPath(found) ==
  /\ ~searching
  /\ tables' = found
  /\ trans' = {}
  /\ UNCHANGED <<registryVars, contempt, repetition, searching, node, evalHash>>

\* What works whatever the search does: SyzygyProbeDepth and Hash.
ClearTable ==
  /\ trans' = {}
  /\ UNCHANGED <<registryVars, engineVars, searching, node, evalHash>>

-----------------------------------------------------------------------------
(* A search.                                                               *)

\* contempt.go:53: general contempt overrides.
RepetitionContempt == IF contempt # 0 THEN contempt ELSE repetition

Evaluation == <<parms[EvalRegistry], attackWeight>>

\* What the value of a node depends on besides its position and its search.  At
\* which depth a table is probed (SyzygyProbeDepth) belongs to the search.
Configuration ==
  [evaluation |-> Evaluation,
   reductions |-> lmrReductions,
   search     |-> [r \in Registries \ {EvalRegistry} |-> parms[r]],
   draw       |-> contempt,
   repeated   |-> RepetitionContempt,
   tables     |-> tables]

\* slInitLate clears the worker's own caches; the table stays.
StartSearch ==
  /\ ~searching
  /\ searching' = TRUE
  /\ evalHash' = {}
  /\ UNCHANGED <<registryVars, engineVars, node, trans>>

\* A node reads what is in force, and takes entries from the caches.
EnterNode ==
  /\ searching /\ node = {}
  /\ node' = {Configuration} \cup trans
  /\ evalHash' = evalHash \cup {Evaluation}
  /\ UNCHANGED <<registryVars, engineVars, searching, trans>>

\* and stores what it has made of them, some time later.
LeaveNode ==
  /\ searching /\ node # {}
  /\ trans' = trans \cup node
  /\ node' = {}
  /\ UNCHANGED <<registryVars, engineVars, searching, evalHash>>

FinishSearch ==
  /\ searching /\ node = {}
  /\ searching' = FALSE
  /\ UNCHANGED <<registryVars, engineVars, node, caches>>

RegistryInit ==
  /\ parms = [r \in Registries |-> Default(r)]
  /\ attackWeight = Default(EvalRegistry)
  /\ lmrReductions = Default(LmrRegistry)
  /\ parameterFilePath = ""
  /\ parameterFileSHA = DefaultParameterFile
  /\ contempt = 0 /\ repetition = DefaultSearchRepetitionContempt
  /\ tables \in TableSets \cup {NoTables}
  /\ searching = FALSE /\ node = {} /\ trans = {} /\ evalHash = {}

SetOption ==
  \/ \E file \in Files : LoadParameterFile(file)
  \/ ResetParameterFile
  \/ \E value \in Contempts : SetContempt(value) \/ SetSearchRepetitionContempt(value)
  \/ \E found \in TableSets \cup {NoTables} : SetSyzygyPath(found)
  \/ ClearTable

RegistryNext == SetOption \/ StartSearch \/ EnterNode \/ LeaveNode \/ FinishSearch

RegistrySpec == RegistryInit /\ [][RegistryNext]_configurationVars

-----------------------------------------------------------------------------
(* Properties.                                                             *)

\* Every entry of the table, and whatever a node has read and will store, was
\* computed under the configuration in force, and so was every cached evaluation
\* of a search: none believes a result of other parameters, another contempt or
\* other tablebases, in whatever order options and searches come.
EntriesInForce ==
  /\ trans \cup node \subseteq {Configuration}
  /\ searching => evalHash \subseteq {Evaluation}

\* The tables derived from parameters are of the parameters in force.
DerivedInForce ==
  /\ attackWeight = parms[EvalRegistry]
  /\ lmrReductions = parms[LmrRegistry]

\* A search never mixes two configurations: neither through what is cached nor
\* through what is derived, although a search stores long after it has read and
\* each command cleans up after itself alone.
ResultsInForce == EntriesInForce /\ DerivedInForce

\* A file that gives each parameter of its registry one value, on its grid.
Complete(file) ==
  /\ file.schema = Schema /\ file.registry \in Registries
  /\ Len(file.parameters) = Len(Descriptors[file.registry])
  /\ \A i \in DOMAIN Descriptors[file.registry] :
       LET d == Descriptors[file.registry][i] IN
       \E j \in DOMAIN file.parameters :
         /\ file.parameters[j].name = d.name
         /\ \E k \in 0..(d.max - d.min) : file.parameters[j].value = d.min + k * d.step
         /\ file.parameters[j].value <= d.max

\* A registry in force is the built-in one or that of one complete file, taken
\* whole: no rejected file leaves a trace and no two files mix within a registry.
WholeFiles ==
  \A r \in Registries :
    \/ parms[r] = Default(r)
    \/ \E file \in Files :
         /\ Complete(file) /\ file.registry = r
         /\ \A i \in DOMAIN Descriptors[r] : \E j \in DOMAIN file.parameters :
              file.parameters[j] = [name |-> Descriptors[r][i].name, value |-> parms[r][i]]

\* The canonical file of what is in force in a registry.
InForce(r) ==
  [schema |-> Schema, registry |-> r,
   parameters |-> [i \in DOMAIN Descriptors[r] |->
                     [name |-> Descriptors[r][i].name, value |-> parms[r][i]]]]

\* While a file is loaded, the digest told is that of the values in force in its
\* registry, however the file orders them and whatever was loaded before.
LoadedIdentity ==
  parameterFilePath # "" => parameterFileSHA = InForce(parameterFileSHA.registry)

\* Whatever files come, good or bad: one counts whole or not at all, and the
\* digest by which a match is identified is that of the values played with.
FilesInForce == WholeFiles /\ LoadedIdentity

\* The digest saved identifies active values, also after a reset
\* (optimizer/IMPLEMENTATION-PLAN.md:252): setParameterFile does not keep this.
ActiveIdentity == parameterFileSHA = InForce(parameterFileSHA.registry)
=============================================================================
