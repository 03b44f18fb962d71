------------------------ MODULE ScenarioSession_proofs ------------------------
(***************************************************************************)
(* The theorems about scenario sessions and the generations that run       *)
(* beside them, for any servers, tools, listings and numbers of sessions.  *)
(***************************************************************************)
EXTENDS ScenarioSession, WellFoundedInduction, SequenceTheorems, FiniteSetTheorems, TLAPS

USE CodegenAssumption, ScenarioAssumption

-----------------------------------------------------------------------------
(* The generations: what a step of Codegen preserves, for any servers,     *)
(* tools and listings.  Sessions leave its variables alone.                *)

Latest == made[Len(made)]
Generating == pc \in {"wipe", "write", "smoke"}
Writing == pc \in {"write", "smoke"}

(* What the place of the command says of its loop. *)
Progress ==
  /\ pc \in {"handshake", "gate"} => Len(made) < MaxGen
  /\ Generating => Len(made) > 0 /\ todo \subseteq Latest
  /\ pc = "smoke" => todo # {} /\ First(todo) \in Required

(* Without consent the wipe finds nothing, so what is there after it was   *)
(* written by the running generation.                                      *)
NothingOfTheirs ==
  ~consent =>
    /\ pc = "wipe" => DOMAIN dir = {}
    /\ Writing => \A f \in DOMAIN dir : dir[f].gen = Len(made)

-----------------------------------------------------------------------------
LEMMA LeastOf ==
  ASSUME NEW ns \in SUBSET Nat, ns # {}
  PROVE  \E m \in ns : \A n \in ns : m <= n
<1>1. IsWellFoundedOn(OpToRel(<, Nat), Nat)
  BY NatLessThanWellFounded
<1>2. PICK R : IsWellFoundedOn(R, Nat) /\ R = OpToRel(<, Nat)
  BY <1>1, Zenon
<1>3. \E m \in ns : \A n \in ns : ~(<<n, m>> \in R)
  BY <1>2, WFMin, ZenonT(30)
<1>4. PICK m \in ns : \A n \in ns : ~(<<n, m>> \in R)
  BY <1>3
<1>5. R = {p \in Nat \X Nat : p[1] < p[2]}
  BY <1>2, Zenon DEF OpToRel
<1>6. ASSUME NEW n \in ns PROVE m <= n
  <2>1. <<n, m>> \notin R /\ n \in Nat /\ m \in Nat
    BY <1>4, <1>6
  <2>2. <<n, m>> \in R <=> n < m
    BY <1>5, <2>1
  <2> QED BY <2>1, <2>2
<1> QED BY <1>6

(* The order of sorted() has a first element in every set of tools. *)
LEMMA FirstIn ==
  ASSUME NEW ts, ts \subseteq Tools, ts # {}
  PROVE  First(ts) \in ts
<1>1. {Rank[t] : t \in ts} \in SUBSET Nat /\ {Rank[t] : t \in ts} # {}
  OBVIOUS
<1>2. PICK m \in {Rank[t] : t \in ts} : \A n \in {Rank[t] : t \in ts} : m <= n
  BY <1>1, LeastOf
<1>3. PICK t \in ts : Rank[t] = m
  BY <1>2
<1>4. \A u \in ts : Rank[t] <= Rank[u]
  BY <1>2, <1>3
<1> QED BY <1>4 DEF First

(* Put adds or replaces one file. *)
LEMMA PutHolds ==
  ASSUME NEW names, NEW d, NEW file \in names, NEW content \in Content, Holds(names, d)
  PROVE  Holds(names, Put(d, file, content))
BY DEF Put, Holds

LEMMA OwnIsContent == Own \in Content
BY DEF Own, Content

LEMMA WrittenIsContent ==
  ASSUME TypeOK, NEW kind \in {"classes", "smoke", "registry", "torn"},
         NEW tools \in SUBSET Tools
  PROVE  /\ Written(kind, tools) \in Content
         /\ Written(kind, tools).kind = kind
         /\ Written(kind, tools).gen = Len(made)
         /\ Written(kind, tools).tools = tools
BY DEF TypeOK, Written, Content

(* A step that writes a file of the package touches this file only. *)
LEMMA WriteIs ==
  ASSUME TypeOK, NEW file \in Files, NEW content \in Content,
         Write(file, content), target' = target
  PROVE  /\ package' = [s \in Slugs |-> package'[s]]
         /\ \A s \in Slugs : Holds(Files, package'[s])
         /\ dir' = Put(dir, file, content)
         /\ \A s \in Slugs \ {target} : package'[s] = package[s]
<1>1. package' = [package EXCEPT ![target] = Put(dir, file, content)]
  BY DEF Write, dir
<1>2. Holds(Files, Put(dir, file, content))
  BY PutHolds DEF TypeOK, dir
<1>3. /\ package'[target] = Put(dir, file, content)
      /\ \A s \in Slugs \ {target} : package'[s] = package[s]
      /\ package' = [s \in Slugs |-> package'[s]]
  BY <1>1 DEF TypeOK
<1> QED BY <1>2, <1>3 DEF TypeOK, dir

(* A step of the file system, by the slug it works on. *)
LEMMA FilesOfTools ==
  /\ \A t \in Tools : Module[t] \in Files /\ Smoke[t] \in Files
  /\ InitFile \in Files /\ OwnFile \in Files /\ InitFile # OwnFile
BY DEF Files, Modules, InitFile, OwnFile

(* The command writes its own files: what it writes, and where. *)
LEMMA WritesOf ==
  ASSUME TypeOK, Progress
  PROVE  /\ pc \in {"write", "smoke"} /\ todo # {} =>
              First(todo) \in todo /\ First(todo) \in Tools
         /\ Generating => Latest \in SUBSET Tools
         /\ NextFile \in Files
<1>1. todo # {} => First(todo) \in todo /\ First(todo) \in Tools
  BY FirstIn DEF TypeOK
<1>2. Generating => Latest \in SUBSET Tools
  BY DEF TypeOK, Progress, Generating, Latest
<1>3. NextFile \in Files
  BY <1>1, FilesOfTools DEF NextFile, Progress
<1> QED BY <1>1, <1>2, <1>3

(* Every step that writes, as one fact. *)
Writes(file, content) ==
  /\ file \in Files /\ content \in Content /\ content.gen = Len(made)
  /\ Write(file, content)
  /\ UNCHANGED <<sealed, made, target>>

LEMMA WriteToolIs ==
  ASSUME TypeOK, Progress, WriteTool
  PROVE  /\ First(todo) \in todo /\ First(todo) \in Tools
         /\ Writes(Module[First(todo)], Classes(First(todo)))
<1>1. First(todo) \in todo /\ First(todo) \in Tools
  BY WritesOf DEF WriteTool
<1>2. Classes(First(todo)) \in Content /\ Classes(First(todo)).gen = Len(made)
  BY <1>1, WrittenIsContent DEF Classes
<1> QED BY <1>1, <1>2, FilesOfTools DEF Writes, WriteTool

LEMMA WriteSmokeIs ==
  ASSUME TypeOK, Progress, WriteSmoke
  PROVE  /\ First(todo) \in todo /\ First(todo) \in Tools
         /\ Writes(Smoke[First(todo)], SmokeTest(First(todo)))
<1>1. First(todo) \in todo /\ First(todo) \in Tools
  BY WritesOf DEF WriteSmoke, Progress
<1>2. SmokeTest(First(todo)) \in Content /\ SmokeTest(First(todo)).gen = Len(made)
  BY <1>1, WrittenIsContent DEF SmokeTest
<1> QED BY <1>1, <1>2, FilesOfTools DEF Writes, WriteSmoke

LEMMA WriteRegistryIs ==
  ASSUME TypeOK, Progress, WriteRegistry
  PROVE  Writes(InitFile, Registry)
<1>1. Latest \in SUBSET Tools
  BY WritesOf DEF WriteRegistry, Generating
<1>2. Registry \in Content /\ Registry.gen = Len(made)
  BY <1>1, WrittenIsContent DEF Registry, Latest
<1> QED BY <1>2, FilesOfTools DEF Writes, WriteRegistry

LEMMA TornIs ==
  ASSUME TypeOK, Progress, GenerateFails, package' # package
  PROVE  /\ Writing
         /\ Writes(NextFile, Written("torn", {}))
<1>1. Written("torn", {}) \in Content /\ Written("torn", {}).gen = Len(made)
  BY WrittenIsContent
<1> QED BY <1>1, WritesOf DEF Writes, GenerateFails, Writing

LEMMA WritesTyped ==
  ASSUME TypeOK, NEW file, NEW content, Writes(file, content)
  PROVE  /\ package' = [s \in Slugs |-> package'[s]]
         /\ \A s \in Slugs : Holds(Files, package'[s])
         /\ dir' = Put(dir, file, content)
         /\ \A s \in Slugs \ {target} : package'[s] = package[s]
BY WriteIs DEF Writes

-----------------------------------------------------------------------------
LEMMA TypeStep ==
  ASSUME TypeOK, Progress, [CodegenNext]_vars
  PROVE  TypeOK'
<1> DEFINE Packages == /\ package = [s \in Slugs |-> package[s]]
                       /\ \A s \in Slugs : Holds(Files, package[s])
<1> USE DEF TypeOK
<1>1. ASSUME NEW s \in Slugs, AddOwnFile(s) PROVE TypeOK'
  <2>1. package' = [package EXCEPT ![s] = Put(package[s], OwnFile, Own)]
    BY <1>1 DEF AddOwnFile
  <2>2. Holds(Files, Put(package[s], OwnFile, Own))
    BY PutHolds, OwnIsContent, FilesOfTools
  <2>3. Packages'
    BY <2>1, <2>2
  <2> QED BY <1>1, <2>3 DEF AddOwnFile, command
<1>2. ASSUME NEW s \in Slugs, Seal(s) PROVE TypeOK'
  BY <1>2 DEF Seal, command
<1>3. CASE Start
  <2>1. consent' \in BOOLEAN
    BY <1>3 DEF Start
  <2>2. Packages' /\ sealed' \in [Slugs -> BOOLEAN]
    BY <1>3 DEF Start
  <2> QED BY <1>3, <2>1, <2>2 DEF Start
<1>4. CASE Refused
  BY <1>4 DEF Refused, Exit
<1>5. ASSUME NEW s \in Slugs, NEW tools \in Listings, Identified(s, tools) PROVE TypeOK'
  BY <1>5 DEF Identified
<1>6. CASE PassGate
  <2>1. Len(made') <= MaxGen /\ made' \in Seq(SUBSET Tools)
    BY <1>6 DEF PassGate, Progress
  <2>2. consent' \in BOOLEAN
    BY <1>6 DEF PassGate, NothingToLose
  <2> QED BY <1>6, <2>1, <2>2 DEF PassGate
<1>7. CASE GateRefuses
  BY <1>7 DEF GateRefuses, Exit
<1>8. CASE Wipe
  <2>1. PICK f \in DOMAIN dir :
          package' = [package EXCEPT ![target] = [g \in DOMAIN @ \ {f} |-> @[g]]]
    BY <1>8 DEF Wipe
  <2>2. Holds(Files, [g \in DOMAIN dir \ {f} |-> dir[g]])
    BY DEF Holds, dir
  <2>3. package' = [package EXCEPT ![target] = [g \in DOMAIN dir \ {f} |-> dir[g]]]
    BY <2>1 DEF dir
  <2>4. /\ package' = [s \in Slugs |-> package'[s]]
        /\ package'[target] = [g \in DOMAIN dir \ {f} |-> dir[g]]
        /\ \A s \in Slugs \ {target} : package'[s] = package[s]
    <3> DEFINE left == [g \in DOMAIN dir \ {f} |-> dir[g]]
    <3>1. package' = [package EXCEPT ![target] = left]
      BY <2>3
    <3> HIDE DEF left
    <3>2. /\ package' = [s \in Slugs |-> package'[s]]
          /\ package'[target] = left
          /\ \A s \in Slugs \ {target} : package'[s] = package[s]
      <4>1. package = [s \in Slugs |-> package[s]] /\ target \in Slugs
        BY DEF TypeOK
      <4> QED BY <3>1, <4>1
    <3> QED BY <3>2 DEF left
  <2>5. Packages'
    BY <2>2, <2>4
  <2> QED BY <1>8, <2>5 DEF Wipe, command
<1>9. CASE Wiped
  BY <1>9 DEF Wiped
<1>10. CASE WriteTool
  <2>1. Packages'
    BY <1>10, WriteToolIs, WritesTyped
  <2> QED BY <1>10, <2>1 DEF WriteTool
<1>11. CASE WriteSmoke
  <2>1. Packages'
    BY <1>11, WriteSmokeIs, WritesTyped
  <2> QED BY <1>11, <2>1 DEF WriteSmoke
<1>12. CASE WriteRegistry
  <2>1. Packages'
    BY <1>12, WriteRegistryIs, WritesTyped
  <2> QED BY <1>12, <2>1 DEF WriteRegistry, Exit
<1>13. CASE GenerateFails
  <2>1. Packages'
    <3>1. CASE package' = package
      BY <3>1
    <3>2. CASE package' # package
      BY <1>13, <3>2, TornIs, WritesTyped
    <3> QED BY <3>1, <3>2
  <2> QED BY <1>13, <2>1 DEF GenerateFails, Exit
<1>14. CASE UNCHANGED vars
  BY <1>14 DEF vars, command
<1> QED BY <1>1, <1>2, <1>3, <1>4, <1>5, <1>6, <1>7, <1>8, <1>9, <1>10, <1>11,
           <1>12, <1>13, <1>14 DEF CodegenNext

LEMMA ProgressStep ==
  ASSUME TypeOK, Progress, [CodegenNext]_vars
  PROVE  Progress'
<1> USE DEF Progress, Generating, Latest
<1>1. ASSUME NEW s \in Slugs, AddOwnFile(s) PROVE Progress'
  BY <1>1 DEF AddOwnFile, command
<1>2. ASSUME NEW s \in Slugs, Seal(s) PROVE Progress'
  BY <1>2 DEF Seal, command
<1>3. CASE Start
  BY <1>3 DEF Start
<1>4. CASE Refused
  BY <1>4 DEF Refused, Exit
<1>5. ASSUME NEW s \in Slugs, NEW tools \in Listings, Identified(s, tools) PROVE Progress'
  BY <1>5 DEF Identified
<1>6. CASE PassGate
  BY <1>6 DEF PassGate, TypeOK
<1>7. CASE GateRefuses
  BY <1>7 DEF GateRefuses, Exit
<1>8. CASE Wipe
  BY <1>8 DEF Wipe, command
<1>9. CASE Wiped
  BY <1>9 DEF Wiped
<1>10. CASE WriteTool
  BY <1>10 DEF WriteTool
<1>11. CASE WriteSmoke
  BY <1>11 DEF WriteSmoke
<1>12. CASE WriteRegistry
  BY <1>12 DEF WriteRegistry, Exit
<1>13. CASE GenerateFails
  BY <1>13 DEF GenerateFails, Exit
<1>14. CASE UNCHANGED vars
  BY <1>14 DEF vars, command
<1> QED BY <1>1, <1>2, <1>3, <1>4, <1>5, <1>6, <1>7, <1>8, <1>9, <1>10, <1>11,
           <1>12, <1>13, <1>14 DEF CodegenNext

-----------------------------------------------------------------------------
(* The steps by what they do to the packages: none, a file of the          *)
(* operator's, one of the wipe, or one write of the running generation.    *)
LEMMA StepKinds ==
  ASSUME TypeOK, Progress, [CodegenNext]_vars
  PROVE  \/ package' = package
         \/ \E s \in Slugs : AddOwnFile(s)
         \/ Wipe
         \/ /\ Writing
            /\ \E file, content : Writes(file, content)
<1>1. CASE WriteTool
  <2>1. Writes(Module[First(todo)], Classes(First(todo)))
    BY <1>1, WriteToolIs
  <2> QED BY <1>1, <2>1 DEF Writing, WriteTool
<1>2. CASE WriteSmoke
  <2>1. Writes(Smoke[First(todo)], SmokeTest(First(todo)))
    BY <1>2, WriteSmokeIs
  <2> QED BY <1>2, <2>1 DEF Writing, WriteSmoke
<1>3. CASE WriteRegistry
  <2>1. Writes(InitFile, Registry)
    BY <1>3, WriteRegistryIs
  <2> QED BY <1>3, <2>1 DEF Writing, WriteRegistry
<1>4. CASE GenerateFails
  BY <1>4, TornIs
<1>5. ASSUME \/ \E s \in Slugs : Seal(s)
             \/ Start \/ Refused \/ PassGate \/ GateRefuses \/ Wiped \/ UNCHANGED vars
             \/ \E s \in Slugs, tools \in Listings : Identified(s, tools)
      PROVE  package' = package
  BY <1>5 DEF Seal, Start, Refused, Identified, PassGate, GateRefuses, Wiped, vars
<1> QED BY <1>1, <1>2, <1>3, <1>4, <1>5 DEF CodegenNext

(* Every file that is lost was the command's to take. *)
LEMMA KeptStep ==
  ASSUME TypeOK, Progress, NothingOfTheirs, [CodegenNext]_vars, NEW s \in Slugs,
         NEW f \in Lost(s)
  PROVE  consent \/ package[s][f].gen = Len(made)
<1> USE DEF Lost
<1>1. CASE package' = package
  BY <1>1
<1>2. ASSUME NEW r \in Slugs, AddOwnFile(r) PROVE FALSE
  <2>1. package' = [package EXCEPT ![r] = Put(package[r], OwnFile, Own)]
        /\ OwnFile \notin DOMAIN package[r]
    BY <1>2 DEF AddOwnFile
  <2>2. package'[s] = package[s] \/ (package'[s] = Put(package[s], OwnFile, Own) /\ s = r)
    BY <2>1 DEF TypeOK
  <2>3. /\ DOMAIN package[r] \subseteq DOMAIN Put(package[r], OwnFile, Own)
        /\ \A g \in DOMAIN package[r] : Put(package[r], OwnFile, Own)[g] = package[r][g]
    BY <2>1 DEF Put
  <2> QED BY <2>2, <2>3
<1>3. CASE Wipe
  <2>1. consent
    BY <1>3 DEF Wipe, NothingOfTheirs
  <2> QED BY <2>1
<1>4. ASSUME NEW file, NEW content, Writes(file, content), Writing
      PROVE  consent \/ package[s][f].gen = Len(made)
  <2>1. CASE s # target
    BY <1>4, <2>1, WritesTyped
  <2>2. CASE s = target
    BY <1>4, <2>2 DEF NothingOfTheirs, dir
  <2> QED BY <2>1, <2>2
<1> QED BY <1>1, <1>2, <1>3, <1>4, StepKinds

LEMMA TheirsStep ==
  ASSUME TypeOK, Progress, NothingOfTheirs, [CodegenNext]_vars
  PROVE  NothingOfTheirs'
<1> USE DEF NothingOfTheirs, Writing
<1>1. ASSUME NEW file, NEW content, Writes(file, content),
             Writing, consent' = consent, pc' # "wipe"
      PROVE  NothingOfTheirs'
  <2>1. dir' = Put(dir, file, content) /\ content.gen = Len(made) /\ made' = made
    BY <1>1, WritesTyped DEF Writes
  <2>2. ASSUME ~consent PROVE \A f \in DOMAIN Put(dir, file, content) :
                                Put(dir, file, content)[f].gen = Len(made)
    <3>1. \A f \in DOMAIN dir : dir[f].gen = Len(made)
      BY <1>1, <2>2
    <3>2. /\ DOMAIN Put(dir, file, content) = DOMAIN dir \union {file}
          /\ Put(dir, file, content)[file] = content
          /\ \A f \in DOMAIN dir : f # file => Put(dir, file, content)[f] = dir[f]
      BY DEF Put
    <3> QED BY <2>1, <3>1, <3>2
  <2>3. ASSUME ~consent PROVE \A f \in DOMAIN dir' : dir'[f].gen = Len(made')
    BY <2>1, <2>2, <2>3
  <2> QED BY <1>1, <2>3
<1>2. CASE PassGate
  <2>1. ~consent' => DOMAIN dir = {}
    BY <1>2 DEF PassGate, NothingToLose, dir
  <2> QED BY <1>2, <2>1 DEF PassGate, dir
<1>3. CASE Wipe
  BY <1>3 DEF Wipe, dir, command
<1>4. CASE Wiped
  BY <1>4 DEF Wiped, dir
<1>5. CASE WriteTool
  <2>1. Writes(Module[First(todo)], Classes(First(todo)))
    BY <1>5, WriteToolIs
  <2>2. Writing /\ consent' = consent /\ pc' # "wipe"
    BY <1>5 DEF WriteTool
  <2> QED BY <1>1, <2>1, <2>2
<1>6. CASE WriteSmoke
  <2>1. Writes(Smoke[First(todo)], SmokeTest(First(todo)))
    BY <1>6, WriteSmokeIs
  <2>2. Writing /\ consent' = consent /\ pc' # "wipe"
    BY <1>6 DEF WriteSmoke
  <2> QED BY <1>1, <2>1, <2>2
<1>7. ASSUME \/ \E s \in Slugs : AddOwnFile(s) \/ Seal(s)
             \/ Start \/ Refused \/ GateRefuses \/ WriteRegistry \/ GenerateFails
             \/ \E s \in Slugs, tools \in Listings : Identified(s, tools)
      PROVE  pc' \in {"idle", "handshake", "gate"}
  BY <1>7 DEF AddOwnFile, Seal, Start, Refused, Identified, GateRefuses, WriteRegistry,
              GenerateFails, Exit, command
<1>8. CASE UNCHANGED vars
  BY <1>8 DEF vars, command, dir
<1> QED BY <1>2, <1>3, <1>4, <1>5, <1>6, <1>7, <1>8 DEF CodegenNext

-----------------------------------------------------------------------------
(* The files of a directory are those of one generation, each with the     *)
(* classes of a tool that has this file name.                              *)
MadeBy(d, g) ==
  \A f \in DOMAIN d \intersect Modules :
    /\ d[f].gen = g /\ d[f].kind # "torn"
    /\ d[f].kind = "classes" => \E u \in made[g] : Module[u] = f /\ d[f].tools = {u}

(* A directory with a registry that was not sealed has the whole of it. *)
Clean(s) ==
  /\ ~sealed[s] /\ InitFile \in DOMAIN package[s] /\ package[s][InitFile].kind = "registry"
  => \E g \in 1 .. Len(made) :
       package[s][InitFile].tools = made[g] /\ MadeBy(package[s], g)

(* While files are written the wipe has left none but those written since. *)
Fresh ==
  Writing /\ ~sealed[target] => InitFile \notin DOMAIN dir /\ MadeBy(dir, Len(made))

AllClean == Fresh /\ \A s \in Slugs : Clean(s)

(* A write into a directory keeps it of one generation. *)
LEMMA MadeByPut ==
  ASSUME TypeOK, NEW g \in 1 .. Len(made), NEW d, MadeBy(d, g), NEW file, NEW content,
         made' = made,
         file \in Modules =>
           /\ content.gen = g /\ content.kind # "torn"
           /\ content.kind = "classes" =>
                \E u \in made[g] : Module[u] = file /\ content.tools = {u}
  PROVE  MadeBy(Put(d, file, content), g)
BY DEF MadeBy, Put

LEMMA AllCleanStep ==
  ASSUME TypeOK, Progress, AllClean, [CodegenNext]_vars
  PROVE  AllClean'
<1> USE DEF AllClean
<1>1. ASSUME UNCHANGED <<package, made>>, \A s \in Slugs : sealed[s] => sealed'[s]
      PROVE  \A s \in Slugs : Clean(s)'
  BY <1>1 DEF Clean, MadeBy
<1>2. ASSUME pc' \notin {"write", "smoke"}
      PROVE  Fresh'
  BY <1>2 DEF Fresh, Writing
<1>3. ASSUME NEW file, NEW content, Writes(file, content),
             \A s \in Slugs \ {target} : package'[s] = package[s]
      PROVE  \A s \in Slugs \ {target} : Clean(s)'
  BY <1>3 DEF Clean, MadeBy, Writes
(* A file of a tool, written by the running generation. *)
<1>4. ASSUME NEW file \in Modules, NEW content, Writes(file, content), Writing,
             content.kind # "torn",
             content.kind = "classes" =>
               \E u \in Latest : Module[u] = file /\ content.tools = {u}
      PROVE  AllClean'
  <2>1. /\ dir' = Put(dir, file, content) /\ UNCHANGED <<sealed, made, target>>
        /\ content.gen = Len(made)
        /\ \A s \in Slugs \ {target} : package'[s] = package[s]
    BY <1>4, WritesTyped DEF Writes
  <2>2. Len(made) \in 1 .. Len(made)
    BY <1>4 DEF Progress, Generating, Writing, TypeOK
  <2>3. ASSUME ~sealed[target]
        PROVE  InitFile \notin DOMAIN dir' /\ MadeBy(Put(dir, file, content), Len(made))
    <3>1. InitFile \notin DOMAIN dir /\ MadeBy(dir, Len(made))
      BY <1>4, <2>3 DEF Fresh
    <3>2. InitFile \notin DOMAIN dir'
      BY <2>1, <3>1 DEF Put
    <3>3. MadeBy(Put(dir, file, content), Len(made))
      BY <1>4, <2>1, <2>2, <3>1, MadeByPut DEF Latest
    <3> QED BY <3>2, <3>3
  <2>4. ASSUME ~sealed[target] PROVE InitFile \notin DOMAIN dir' /\ MadeBy(dir, Len(made))'
    BY <2>1, <2>3, <2>4 DEF MadeBy
  <2>5. Fresh'
    BY <2>1, <2>4 DEF Fresh
  <2>6. Clean(target)'
    BY <2>1, <2>4 DEF Clean, dir
  <2>7. \A s \in Slugs \ {target} : Clean(s)'
    BY <1>3, <1>4, <2>1
  <2> QED BY <2>1, <2>5, <2>6, <2>7
<1>5. ASSUME NEW s \in Slugs, AddOwnFile(s) PROVE AllClean'
  <2>1. /\ package' = [package EXCEPT ![s] = Put(package[s], OwnFile, Own)]
        /\ UNCHANGED <<sealed, made, pc>> /\ pc = "idle"
    BY <1>5 DEF AddOwnFile, command
  <2>2. \A r \in Slugs \ {s} : package'[r] = package[r]
    BY <2>1 DEF TypeOK
  <2>3. package'[s] = Put(package[s], OwnFile, Own)
    BY <2>1 DEF TypeOK
  <2>4. ASSUME NEW g \in 1 .. Len(made), MadeBy(package[s], g)
        PROVE  MadeBy(package'[s], g)
    BY <2>1, <2>3, <2>4, MadeByPut
  <2>5. /\ InitFile \in DOMAIN package'[s] <=> InitFile \in DOMAIN package[s]
        /\ InitFile \in DOMAIN package[s] => package'[s][InitFile] = package[s][InitFile]
    BY <2>3, FilesOfTools DEF Put
  <2>6. Clean(s)'
    BY <2>1, <2>4, <2>5, SMTT(30) DEF Clean, MadeBy
  <2>7. \A r \in Slugs \ {s} : Clean(r)'
    BY <2>1, <2>2 DEF Clean, MadeBy
  <2> QED BY <1>2, <2>1, <2>6, <2>7
<1>6. ASSUME \/ \E s \in Slugs : Seal(s)
             \/ Start \/ Refused \/ GateRefuses
             \/ \E s \in Slugs, tools \in Listings : Identified(s, tools)
      PROVE  AllClean'
  <2>1. UNCHANGED <<package, made>> /\ pc' \notin {"write", "smoke"}
    BY <1>6 DEF Seal, Start, Refused, Identified, GateRefuses, Exit, command
  <2>2. \A s \in Slugs : sealed[s] => sealed'[s]
    BY <1>6 DEF Seal, Start, Refused, Identified, GateRefuses, TypeOK
  <2> QED BY <1>1, <1>2, <2>1, <2>2
<1>7. CASE PassGate
  <2>1. /\ made' = Append(made, todo) /\ UNCHANGED <<package, sealed>>
        /\ pc' \notin {"write", "smoke"}
    BY <1>7 DEF PassGate
  <2>2. Len(made') = Len(made) + 1 /\ Len(made) \in Nat
        /\ \A g \in 1 .. Len(made) : made'[g] = made[g]
    BY <2>1 DEF TypeOK
  <2>3. ASSUME NEW s \in Slugs PROVE Clean(s)'
    BY <2>1, <2>2 DEF Clean, MadeBy
  <2> QED BY <1>2, <2>1, <2>3
<1>8. CASE Wipe
  <2>1. PICK f \in DOMAIN dir :
          package' = [package EXCEPT ![target] = [g \in DOMAIN dir \ {f} |-> dir[g]]]
    BY <1>8 DEF Wipe, dir
  <2>2. /\ package'[target] = [g \in DOMAIN dir \ {f} |-> dir[g]]
        /\ \A r \in Slugs \ {target} : package'[r] = package[r]
    BY <2>1 DEF TypeOK
  <2>3. UNCHANGED <<sealed, made, target>> /\ pc' = "wipe" /\ target \in Slugs
    BY <1>8 DEF Wipe, command, TypeOK
  <2>4. \A g : MadeBy(dir, g) => MadeBy(package'[target], g)
    BY <2>2 DEF MadeBy
  <2>5. Clean(target)'
    BY <2>2, <2>3, <2>4 DEF Clean, MadeBy, dir
  <2>6. \A r \in Slugs \ {target} : Clean(r)'
    BY <2>2, <2>3 DEF Clean, MadeBy
  <2> QED BY <1>2, <2>3, <2>5, <2>6
<1>9. CASE Wiped
  <2>1. UNCHANGED <<package, sealed, made, target>>
    BY <1>9 DEF Wiped
  <2>2. ~sealed[target] => DOMAIN dir = {}
    BY <1>9 DEF Wiped, WipeDone
  <2>3. Fresh'
    BY <2>1, <2>2 DEF Fresh, MadeBy, dir
  <2> QED BY <1>1, <2>1, <2>3
<1>10. CASE WriteTool
  <2>1. First(todo) \in Latest /\ First(todo) \in Tools
    BY <1>10, WriteToolIs DEF WriteTool, Progress, Generating
  <2>2. Writes(Module[First(todo)], Classes(First(todo)))
    BY <1>10, WriteToolIs
  <2>3. /\ Classes(First(todo)).kind # "torn"
        /\ Classes(First(todo)).tools = {First(todo)}
    BY <2>1, WrittenIsContent DEF Classes
  <2>4. Module[First(todo)] \in Modules /\ Writing
    BY <1>10, <2>1 DEF Modules, WriteTool, Writing
  <2> QED BY <1>4, <2>1, <2>2, <2>3, <2>4
<1>11. CASE WriteSmoke
  <2>1. First(todo) \in Tools /\ Writes(Smoke[First(todo)], SmokeTest(First(todo)))
    BY <1>11, WriteSmokeIs
  <2>2. SmokeTest(First(todo)).kind = "smoke"
    BY <2>1, WrittenIsContent DEF SmokeTest
  <2>3. Smoke[First(todo)] \in Modules /\ Writing
    BY <1>11, <2>1 DEF Modules, WriteSmoke, Writing
  <2> QED BY <1>4, <2>1, <2>2, <2>3
<1>12. CASE WriteRegistry
  <2>1. Writes(InitFile, Registry) /\ Writing /\ pc' = "idle"
    BY <1>12, WriteRegistryIs DEF WriteRegistry, Writing, Exit
  <2>2. /\ dir' = Put(dir, InitFile, Registry) /\ UNCHANGED <<sealed, made, target>>
        /\ \A s \in Slugs \ {target} : package'[s] = package[s]
        /\ target \in Slugs
    BY <2>1, WritesTyped DEF Writes, TypeOK
  <2>3. Registry.tools = Latest /\ Len(made) \in 1 .. Len(made)
    BY <2>1, WritesOf, WrittenIsContent
       DEF Registry, Latest, Generating, Writing, Progress, TypeOK
  <2>4. ASSUME ~sealed[target] PROVE MadeBy(Put(dir, InitFile, Registry), Len(made))
    BY <2>1, <2>2, <2>3, <2>4, MadeByPut DEF Fresh
  <2>5. dir'[InitFile] = Registry
    BY <2>2 DEF Put
  <2>6. Clean(target)'
    BY <2>2, <2>3, <2>4, <2>5 DEF Clean, MadeBy, dir, Latest
  <2>7. \A s \in Slugs \ {target} : Clean(s)'
    BY <1>3, <2>1, <2>2
  <2> QED BY <1>2, <2>1, <2>2, <2>6, <2>7
<1>13. CASE GenerateFails
  <2>1. UNCHANGED <<sealed, made, target>> /\ pc' = "idle" /\ target \in Slugs
    BY <1>13 DEF GenerateFails, Exit, TypeOK
  <2>2. CASE package' = package
    BY <1>1, <1>2, <2>1, <2>2
  <2>3. CASE package' # package
    <3>1. Writing /\ Writes(NextFile, Written("torn", {}))
      BY <1>13, <2>3, TornIs
    <3>2. /\ dir' = Put(dir, NextFile, Written("torn", {}))
          /\ \A s \in Slugs \ {target} : package'[s] = package[s]
      BY <3>1, WritesTyped
    <3>3. Written("torn", {}).kind = "torn"
      BY DEF Written
    <3>4. ~sealed[target] /\ InitFile \in DOMAIN dir' => dir'[InitFile].kind = "torn"
      BY <3>1, <3>2, <3>3 DEF Put, Fresh
    <3>5. Clean(target)'
      BY <2>1, <3>4 DEF Clean, dir
    <3>6. \A s \in Slugs \ {target} : Clean(s)'
      BY <1>3, <3>1, <3>2
    <3> QED BY <1>2, <2>1, <3>5, <3>6
  <2> QED BY <2>2, <2>3
<1>14. CASE UNCHANGED vars
  BY <1>1, <1>14 DEF vars, command, Fresh, MadeBy, dir, Writing
<1> QED BY <1>5, <1>6, <1>7, <1>8, <1>9, <1>10, <1>11, <1>12, <1>13, <1>14
        DEF CodegenNext

-----------------------------------------------------------------------------
(* The module of a tool is written, and nothing wrote over it. *)
Done(t) ==
  Clashes(t, Latest) \/ (Module[t] \in DOMAIN dir /\ dir[Module[t]] = Classes(t))

Left == IF pc = "smoke" THEN todo \ {First(todo)} ELSE todo

(* What the loop has written so far, and what it left when it succeeded. *)
Loop ==
  /\ pc = "wipe" => todo = Latest
  /\ Writing => \A t \in Latest \ Left : Done(t)
  /\ status = 0 =>
       /\ pc = "idle" /\ Len(made) > 0
       /\ InitFile \in DOMAIN dir /\ dir[InitFile] = Registry
       /\ \A t \in Latest : Done(t)

LEMMA LoopStep ==
  ASSUME TypeOK, Progress, Loop, [CodegenNext]_vars
  PROVE  Loop'
<1>1. CASE WriteTool
  <2> DEFINE u == First(todo)
  <2>1. /\ u \in todo /\ u \in Tools /\ Writes(Module[u], Classes(u))
        /\ u \in Latest /\ todo \subseteq Latest /\ Latest \subseteq Tools
    BY <1>1, WriteToolIs, WritesOf DEF WriteTool, Progress, Generating
  <2>2. dir' = Put(dir, Module[u], Classes(u)) /\ UNCHANGED <<made, status, target>>
    BY <1>1, <2>1, WritesTyped DEF Writes, WriteTool
  <2>3. pc = "write" /\ pc' \in {"write", "smoke"} /\ Left' = todo \ {u}
    BY <1>1 DEF WriteTool, Left
  <2>4. \A t \in Latest \ todo : Done(t)
    BY <2>3 DEF Loop, Writing, Left
  <2>5. ASSUME NEW t \in Latest, Done(t) \/ t = u PROVE Done(t)'
    <3>1. CASE t = u
      BY <2>2, <3>1 DEF Done, Put, Classes, Written
    <3>2. CASE t # u /\ Module[t] = Module[u]
      BY <2>1, <2>2, <3>2 DEF Done, Clashes, Latest
    <3>3. CASE Done(t) /\ Module[t] # Module[u]
      BY <2>2, <3>3 DEF Done, Put, Classes, Written, Latest
    <3> QED BY <2>5, <3>1, <3>2, <3>3
  <2>6. \A t \in Latest' \ Left' : Done(t)'
    BY <2>2, <2>3, <2>4, <2>5 DEF Latest
  <2> QED BY <2>2, <2>3, <2>6 DEF Loop
<1>2. CASE WriteSmoke
  <2> DEFINE u == First(todo)
  <2>1. /\ u \in todo /\ u \in Tools /\ u \in Required /\ Writes(Smoke[u], SmokeTest(u))
        /\ u \in Latest /\ todo \subseteq Latest /\ Latest \subseteq Tools
    BY <1>2, WriteSmokeIs, WritesOf DEF WriteSmoke, Progress, Generating
  <2>2. dir' = Put(dir, Smoke[u], SmokeTest(u)) /\ UNCHANGED <<made, status, target>>
    BY <1>2, <2>1, WritesTyped DEF Writes, WriteSmoke
  <2>3. pc = "smoke" /\ pc' = "write" /\ Left' = todo \ {u} /\ Left = todo \ {u}
    BY <1>2 DEF WriteSmoke, Left
  <2>4. \A t \in Latest \ (todo \ {u}) : Done(t)
    BY <2>3 DEF Loop, Writing
  <2>5. ASSUME NEW t \in Latest, Done(t) PROVE Done(t)'
    <3>1. CASE Module[t] = Smoke[u]
      BY <2>1, <2>2, <3>1 DEF Done, Clashes, Latest
    <3>2. CASE Module[t] # Smoke[u]
      BY <2>2, <2>5, <3>2 DEF Done, Put, Classes, Written, Latest
    <3> QED BY <3>1, <3>2
  <2>6. \A t \in Latest' \ Left' : Done(t)'
    BY <2>2, <2>3, <2>4, <2>5 DEF Latest
  <2> QED BY <2>2, <2>3, <2>6 DEF Loop
<1>3. CASE WriteRegistry
  <2>1. Writes(InitFile, Registry) /\ Latest \subseteq Tools
    BY <1>3, WriteRegistryIs, WritesOf DEF WriteRegistry, Generating
  <2>2. dir' = Put(dir, InitFile, Registry) /\ UNCHANGED <<made, target>>
    BY <2>1, WritesTyped DEF Writes
  <2>3. pc = "write" /\ pc' = "idle" /\ Len(made) > 0 /\ \A t \in Latest : Done(t)
    BY <1>3 DEF WriteRegistry, Exit, Loop, Left, Writing, Progress, Generating
  <2>4. \A t \in Latest : Module[t] # InitFile
    BY <2>1 DEF Modules
  <2>5. \A t \in Latest' : Done(t)'
    BY <2>2, <2>3, <2>4 DEF Done, Put, Classes, Written, Latest
  <2>6. InitFile \in DOMAIN dir' /\ dir'[InitFile] = Registry'
    BY <2>2 DEF Put, Registry, Written
  <2> QED BY <2>2, <2>3, <2>5, <2>6 DEF Loop, Writing
<1>4. ASSUME NEW s \in Slugs, AddOwnFile(s) PROVE Loop'
  <2>1. /\ package' = [package EXCEPT ![s] = Put(package[s], OwnFile, Own)]
        /\ UNCHANGED <<made, pc, target, todo, status>> /\ pc = "idle"
    BY <1>4 DEF AddOwnFile, command
  <2>2. dir' = dir \/ dir' = Put(dir, OwnFile, Own)
    BY <2>1 DEF TypeOK, dir
  <2>3. \A f \in DOMAIN dir \ {OwnFile} : f \in DOMAIN dir' /\ dir'[f] = dir[f]
    BY <2>2 DEF Put
  <2>4. Len(made) > 0 => \A t \in Latest : Module[t] # OwnFile
    BY DEF Modules, Latest, TypeOK
  <2>5. status = 0 => \A t \in Latest' : Done(t)'
    BY <2>1, <2>3, <2>4 DEF Loop, Done, Classes, Written, Latest
  <2>6. status = 0 => InitFile \in DOMAIN dir' /\ dir'[InitFile] = Registry'
    BY <2>1, <2>3, FilesOfTools DEF Loop, Registry, Written
  <2> QED BY <2>1, <2>5, <2>6 DEF Loop, Writing
<1>5. CASE Wiped
  <2>1. pc = "wipe" /\ pc' = "write" /\ UNCHANGED <<made, todo, status>> /\ todo = Latest
    BY <1>5 DEF Wiped, Loop
  <2> QED BY <2>1 DEF Loop, Left, Latest
<1>6. CASE PassGate
  <2>1. made' = Append(made, todo) /\ UNCHANGED <<todo, status>> /\ pc' = "wipe" /\ pc # "idle"
    BY <1>6 DEF PassGate
  <2>2. Latest' = todo
    BY <2>1 DEF Latest, TypeOK
  <2> QED BY <2>1, <2>2 DEF Loop, Writing
<1>7. CASE Wipe
  BY <1>7 DEF Wipe, Loop, command, Writing, Latest
<1>8. CASE Start \/ Refused \/ GateRefuses \/ GenerateFails
  <2>1. pc' \notin {"wipe", "write", "smoke"} /\ status' # 0
    BY <1>8 DEF Start, Refused, GateRefuses, GenerateFails, Exit, Running
  <2> QED BY <2>1 DEF Loop, Writing
<1>9. ASSUME NEW s \in Slugs, NEW tools \in Listings, Identified(s, tools) PROVE Loop'
  BY <1>9 DEF Identified, Loop, Writing
<1>10. ASSUME UNCHANGED <<package, made, pc, target, todo, status>> PROVE Loop'
  BY <1>10 DEF Loop, Writing, Latest, Left, Done, dir, Registry, Written, Classes
<1>11. ASSUME NEW s \in Slugs, Seal(s) PROVE Loop'
  BY <1>10, <1>11 DEF Seal, command
<1>12. CASE UNCHANGED vars
  BY <1>10, <1>12 DEF vars, command
<1> QED BY <1>1, <1>2, <1>3, <1>4, <1>5, <1>6, <1>7, <1>8, <1>9, <1>11, <1>12 DEF CodegenNext

LEMMA LoopImpliesWhole ==
  ASSUME Loop
  PROVE  SuccessIsWhole
<1>1. Registry.tools = Latest
  BY DEF Registry, Written, Latest
<1> QED BY <1>1 DEF Loop, SuccessIsWhole, Done

-----------------------------------------------------------------------------
(* What every step of Codegen preserves. *)
CodegenInv == TypeOK /\ Progress /\ NothingOfTheirs /\ AllClean /\ Loop

LEMMA CodegenInit ==
  ASSUME Init
  PROVE  CodegenInv
<1> USE DEF Init
<1>1. \A s \in Slugs : package[s] = Empty /\ DOMAIN Empty = {}
  BY DEF Empty
<1>2. package = [s \in Slugs |-> package[s]] /\ \A s \in Slugs : Holds(Files, package[s])
  BY DEF Empty, Holds
<1>3. made \in Seq(SUBSET Tools) /\ Len(made) = 0
  OBVIOUS
<1>4. consent \in BOOLEAN
  OBVIOUS
<1>5. TypeOK
  BY <1>2, <1>3, <1>4 DEF TypeOK
<1>6. Progress /\ NothingOfTheirs /\ Loop
  BY <1>3 DEF Progress, Generating, NothingOfTheirs, Writing, Loop, Running
<1>7. AllClean
  BY <1>1 DEF AllClean, Fresh, Writing, Clean
<1> QED BY <1>5, <1>6, <1>7 DEF CodegenInv

LEMMA CodegenStep ==
  ASSUME CodegenInv, [CodegenNext]_vars
  PROVE  CodegenInv'
BY TypeStep, ProgressStep, TheirsStep, AllCleanStep, LoopStep DEF CodegenInv

-----------------------------------------------------------------------------
(* The sessions.                                                           *)

Maps(names) == UNION {[ns -> Content] : ns \in SUBSET names}

Sessions ==
  [slug : Slugs, client : 1 .. MaxSessions, phase : {"opened", "active", "failed"},
   priorSlug : Slugs \union {None}, priorClient : 0 .. MaxSessions,
   registry : Maps(Tools), wrapper : [tool : Tools \union {None}, classes : Content],
   popped : BOOLEAN]

(* The types, with sets for IsSession and Holds. *)
SessionTypes ==
  /\ opened \in 0 .. MaxSessions /\ Len(stack) <= opened
  /\ stack \in Seq(Sessions)
  /\ activeSlug \in Slugs \union {None} /\ activeClient \in 0 .. MaxSessions
  /\ registries \in [Slugs -> Maps(Tools)] /\ modules \in [Slugs -> Maps(Modules)]
  /\ lastCall \in [by : 0 .. MaxSessions, client : 0 .. MaxSessions]

(* How the sessions stand on each other and on the slots: all but the      *)
(* innermost one are set up, and each saved the slots of the one below.    *)
Inner ==
  IF Len(stack) > 0 /\ stack[Len(stack)].phase # "active" THEN Len(stack) - 1 ELSE Len(stack)

Nested ==
  /\ \A i \in 1 .. Len(stack) : i < Len(stack) => stack[i].phase = "active"
  /\ \A i \in 1 .. Inner :
       /\ stack[i].priorSlug = IF i = 1 THEN None ELSE stack[i - 1].slug
       /\ stack[i].priorClient = IF i = 1 THEN NoClient ELSE stack[i - 1].client
  /\ activeSlug = IF Inner = 0 THEN None ELSE stack[Inner].slug
  /\ activeClient = IF Inner = 0 THEN NoClient ELSE stack[Inner].client

(* A slug has the registry of the last session set up with it, or none if  *)
(* a session inside that one has popped it.                                *)
Installed ==
  /\ \A s \in Slugs :
       registries[s] # NoRegistry => \E i \in 1 .. Inner : stack[i].slug = s
  /\ \A i \in 1 .. Inner :
       (\A j \in 1 .. Inner : i < j => stack[j].slug # stack[i].slug)
       => registries[stack[i].slug] =
            IF stack[i].popped THEN NoRegistry ELSE stack[i].registry

Wrapped ==
  /\ \A i \in 1 .. Len(stack) : stack[i].popped => stack[i].phase = "active"
  /\ \A i \in 1 .. Len(stack) : stack[i].wrapper.tool # None =>
       /\ stack[i].phase = "active"
       /\ stack[i].wrapper.tool \in DOMAIN stack[i].registry
       /\ stack[i].wrapper.classes = stack[i].registry[stack[i].wrapper.tool]
  /\ lastCall.client = lastCall.by

-----------------------------------------------------------------------------
LEMMA HoldsIsMap ==
  ASSUME NEW names, NEW map
  PROVE  Holds(names, map) <=> map \in Maps(names)
<1>1. Holds(names, map) => map \in [DOMAIN map -> Content] /\ DOMAIN map \in SUBSET names
  BY DEF Holds
<1>2. ASSUME NEW ns \in SUBSET names, map \in [ns -> Content] PROVE Holds(names, map)
  BY <1>2 DEF Holds
<1> QED BY <1>1, <1>2 DEF Maps

LEMMA SessionIsRecord ==
  ASSUME NEW s \in Sessions
  PROVE  IsSession(s)
<1>1. Holds(Tools, s.registry)
  BY HoldsIsMap DEF Sessions
<1> QED BY <1>1 DEF Sessions, IsSession

LEMMA NothingIsMap ==
  /\ NoRegistry \in Maps(Tools) /\ DOMAIN NoRegistry = {}
  /\ Empty \in Maps(Modules) /\ DOMAIN Empty = {}
<1>1. Holds(Tools, NoRegistry) /\ DOMAIN NoRegistry = {}
  BY DEF Holds, NoRegistry
<1>2. Holds(Modules, Empty) /\ DOMAIN Empty = {}
  BY DEF Holds, Empty
<1> QED BY <1>1, <1>2, HoldsIsMap

(* The three things a step does to the stack. *)
LEMMA Push ==
  ASSUME stack \in Seq(Sessions), NEW session \in Sessions, stack' = Append(stack, session)
  PROVE  /\ stack' \in Seq(Sessions) /\ Len(stack') = Len(stack) + 1
         /\ \A i \in 1 .. Len(stack) : stack'[i] = stack[i]
         /\ stack'[Len(stack')] = session
OBVIOUS

LEMMA Replace ==
  ASSUME stack \in Seq(Sessions), stack # <<>>, NEW session \in Sessions, SetTop(session)
  PROVE  /\ stack' \in Seq(Sessions) /\ Len(stack') = Len(stack) /\ stack' # <<>>
         /\ \A i \in 1 .. Len(stack) - 1 : stack'[i] = stack[i]
         /\ stack'[Len(stack)] = session
BY DEF SetTop

LEMMA Pop ==
  ASSUME stack \in Seq(Sessions), stack # <<>>, NEW ended \in Sessions,
         stack' = Outer(ended)
  PROVE  /\ stack' \in Seq(Sessions) /\ Len(stack') = Len(stack) - 1
         /\ \A i \in 1 .. Len(stack) - 1 :
              stack'[i] = [stack[i] EXCEPT !.popped =
                             @ \/ (ended.phase = "active" /\ stack[i].slug = ended.slug)]
<1> DEFINE n == Len(stack) - 1
           Then(i) == [stack[i] EXCEPT !.popped =
                         @ \/ (ended.phase = "active" /\ stack[i].slug = ended.slug)]
<1>1. n \in Nat /\ \A i \in 1 .. n : stack[i] \in Sessions
  OBVIOUS
<1>2. ASSUME NEW i \in 1 .. n PROVE Then(i) \in Sessions
  BY <1>1 DEF Sessions
<1>3. stack' = [i \in 1 .. n |-> Then(i)]
  BY DEF Outer
<1> HIDE DEF n, Then
<1>4. stack' \in [1 .. n -> Sessions]
  BY <1>2, <1>3
<1>5. stack' \in Seq(Sessions)
  BY <1>1, <1>4, SeqDef
<1>6. Len(stack') = n
  BY <1>1, <1>4, <1>5, LenProperties
<1>7. \A i \in 1 .. n : stack'[i] = Then(i)
  BY <1>3
<1> QED BY <1>5, <1>6, <1>7 DEF n, Then

LEMMA TopIs ==
  ASSUME SessionTypes, stack # <<>>
  PROVE  /\ Len(stack) \in Nat \ {0} /\ Top = stack[Len(stack)] /\ Top \in Sessions
         /\ Top.slug \in Slugs
<1>1. Len(stack) \in Nat \ {0} /\ Top = stack[Len(stack)] /\ Top \in Sessions
  BY DEF SessionTypes, Top
<1>2. Top.slug \in Slugs
  BY <1>1 DEF Sessions
<1> QED BY <1>1, <1>2

(* What an import finds is some content, and in the package if it is not   *)
(* Own.                                                                    *)
LEMMA FoundIs ==
  ASSUME TypeOK, SessionTypes, stack # <<>>, NEW m
  PROVE  /\ Found(m) \in Content
         /\ Found(m).kind # "own" =>
              m \in DOMAIN package[Top.slug] /\ Found(m) = package[Top.slug][m]
<1>1. DOMAIN Purged = {}
  BY NothingIsMap DEF Purged
<1>2. CASE m \in DOMAIN package[Top.slug]
  <2>1. Found(m) = package[Top.slug][m]
    BY <1>1, <1>2 DEF Found
  <2> QED BY <1>2, <2>1, TopIs DEF TypeOK, Holds
<1>3. CASE m \notin DOMAIN package[Top.slug]
  <2>1. Found(m) = Own
    BY <1>1, <1>3 DEF Found
  <2> QED BY <2>1, OwnIsContent DEF Own
<1> QED BY <1>2, <1>3

(* Among the tools with one class name one is the last, so its import      *)
(* binds the name.                                                         *)
LEMMA BinderIs ==
  ASSUME NEW ts \in SUBSET Tools, NEW t \in ts
  PROVE  \E u \in ts : Binds(u, t, ts)
<1> DEFINE named == Namesakes(t, ts)
           After(u) == {v \in named : Rank[u] < Rank[v]}
           size(u) == Cardinality(After(u))
<1>1. t \in named /\ named \in SUBSET Tools
  BY DEF Namesakes
<1>2. ASSUME NEW u \in named PROVE IsFiniteSet(After(u)) /\ size(u) \in Nat
  <2>1. After(u) \in SUBSET Tools
    BY <1>1
  <2> QED BY <2>1, FS_Subset, FS_CardinalityType
<1>3. ASSUME NEW u \in named, NEW v \in After(u) PROVE v \in named /\ size(v) < size(u)
  <2>1. /\ After(v) \in SUBSET After(u)
        /\ v \in named /\ v \in After(u) /\ v \notin After(v)
    BY <1>1, <1>3
  <2> HIDE DEF After, named
  <2>2. size(v) <= size(u) /\ size(v) # size(u)
    BY <1>2, <2>1, FS_Subset
  <2> QED BY <1>2, <2>1, <2>2
<1>4. PICK u \in named : \A v \in named : size(u) <= size(v)
  <2> HIDE DEF named, After, size
  <2> DEFINE sizes == {size(u) : u \in named}
  <2>1. sizes \in SUBSET Nat /\ sizes # {}
    <3>1. \A u \in named : size(u) \in Nat
      BY <1>2
    <3> QED BY <1>1, <3>1
  <2>2. PICK m \in sizes : \A n \in sizes : m <= n
    BY <2>1, LeastOf
  <2> QED BY <2>2
<1>5. ASSUME NEW v \in named PROVE Rank[v] <= Rank[u]
  <2>1. v \notin After(u)
    <3> HIDE DEF size, After, named
    <3> QED BY <1>2, <1>3, <1>4
  <2> QED BY <1>1, <2>1
<1> QED BY <1>4, <1>5 DEF Binds, Namesakes

LEMMA LoadedIsMap ==
  ASSUME TypeOK, SessionTypes, stack # <<>>, NEW ts \in SUBSET Tools
  PROVE  /\ Loaded(ts) \in Maps(Tools) /\ DOMAIN Loaded(ts) = ts
         /\ \A t \in ts : \E u \in ts : Binds(u, t, ts) /\ Loaded(ts)[t] = Found(Module[u])
         /\ Cached(ts) \in Maps(Modules)
<1>1. ASSUME NEW t \in ts
      PROVE  \E u \in ts : Binds(u, t, ts) /\ Loaded(ts)[t] = Found(Module[u])
  <2>1. (CHOOSE u \in ts : Binds(u, t, ts)) \in {u \in ts : Binds(u, t, ts)}
    BY BinderIs
  <2> QED BY <2>1 DEF Loaded
<1>2. Holds(Tools, Loaded(ts))
  BY <1>1, FoundIs DEF Holds, Loaded
<1>3. Holds(Modules, Cached(ts))
  BY FoundIs DEF Holds, Cached, Modules
<1> QED BY <1>1, <1>2, <1>3, HoldsIsMap DEF Loaded

-----------------------------------------------------------------------------
Structure == SessionTypes /\ Nested /\ Installed /\ Wrapped

LEMMA InnerIs ==
  ASSUME Structure
  PROVE  /\ Len(stack) \in Nat /\ Inner \in 0 .. Len(stack)
         /\ \A i \in 1 .. Len(stack) : stack[i] \in Sessions
         /\ \A i \in 1 .. Len(stack) : i <= Inner <=> stack[i].phase = "active"
BY DEF Structure, SessionTypes, Nested, Inner

LEMMA OpenStep ==
  ASSUME Structure, NEW s \in Slugs, OpenSession(s)
  PROVE  Structure' /\ Inner' = Inner /\ \A i \in 1 .. Inner : stack'[i] = stack[i]
<1> DEFINE e == [slug |-> s, client |-> opened + 1, phase |-> "opened",
                 priorSlug |-> None, priorClient |-> NoClient,
                 registry |-> NoRegistry, wrapper |-> NoWrapper, popped |-> FALSE]
<1>1. e \in Sessions
  <2>1. NoWrapper \in [tool : Tools \union {None}, classes : Content]
    BY OwnIsContent DEF NoWrapper
  <2>2. opened + 1 \in 1 .. MaxSessions
    BY DEF OpenSession, Structure, SessionTypes
  <2> QED BY <2>1, <2>2, NothingIsMap DEF Sessions, NoClient
<1>2. /\ stack' \in Seq(Sessions) /\ Len(stack') = Len(stack) + 1
      /\ \A i \in 1 .. Len(stack) : stack'[i] = stack[i]
      /\ stack'[Len(stack')] = e
  <2>1. stack \in Seq(Sessions) /\ stack' = Append(stack, e)
    BY DEF OpenSession, Structure, SessionTypes
  <2> QED BY <1>1, <2>1, Push
<1>3. Len(stack) \in Nat /\ Inner = Len(stack)
  BY DEF OpenSession, Structure, SessionTypes, Inner, Top
<1>4. e.phase = "opened" /\ e.wrapper.tool = None /\ e.popped = FALSE
  BY DEF NoWrapper
<1> HIDE DEF e
<1>5. Inner' = Len(stack)
  BY <1>2, <1>3, <1>4 DEF Inner
<1>6. UNCHANGED <<slots, modules, lastCall>> /\ opened' = opened + 1 /\ opened' <= MaxSessions
  BY DEF OpenSession, Structure, SessionTypes
<1>7. SessionTypes'
  BY <1>2, <1>3, <1>6 DEF Structure, SessionTypes, slots
<1>8. Nested'
  BY <1>2, <1>3, <1>5, <1>6, InnerIs DEF Structure, Nested, slots
<1>9. Installed'
  <2>1. registries' = registries /\ Inner' = Inner
    BY <1>3, <1>5, <1>6 DEF slots
  <2>2. Inner \in Nat /\ \A i \in 1 .. Inner : stack'[i] = stack[i]
    BY <1>2, <1>3
  <2> QED BY <2>1, <2>2 DEF Structure, Installed
<1>10. Wrapped'
  BY <1>2, <1>3, <1>4, <1>6 DEF Structure, Wrapped
<1> QED BY <1>2, <1>3, <1>5, <1>7, <1>8, <1>9, <1>10 DEF Structure

(* A step that only changes what the top says of itself. *)
LEMMA SameNesting ==
  ASSUME Structure, Len(stack') = Len(stack), Inner' = Inner, UNCHANGED slots,
         \A i \in 1 .. Inner :
           /\ stack'[i].slug = stack[i].slug /\ stack'[i].client = stack[i].client
           /\ stack'[i].priorSlug = stack[i].priorSlug
           /\ stack'[i].priorClient = stack[i].priorClient
           /\ stack'[i].registry = stack[i].registry
           /\ stack'[i].popped = stack[i].popped,
         \A i \in 1 .. Len(stack) : stack'[i].phase = stack[i].phase \/ i = Len(stack)
  PROVE  Nested' /\ Installed'
<1>1. Nested'
  BY InnerIs DEF Structure, Nested, slots
<1>2. Installed'
  BY InnerIs DEF Structure, Installed, slots
<1> QED BY <1>1, <1>2

LEMMA LoadFailsStep ==
  ASSUME TypeOK, Structure, LoadFails
  PROVE  Structure' /\ Inner' = Inner /\ \A i \in 1 .. Inner : stack'[i] = stack[i]
<1> DEFINE e == [Top EXCEPT !.phase = "failed"]
<1>1. /\ stack \in Seq(Sessions) /\ stack # <<>> /\ Top.phase = "opened" /\ SetTop(e)
      /\ UNCHANGED <<slots, opened, lastCall>> /\ SessionTypes
  BY DEF LoadFails, Structure, SessionTypes
<1>2. Len(stack) \in Nat \ {0} /\ Top = stack[Len(stack)] /\ Top \in Sessions
      /\ Top.slug \in Slugs
  BY <1>1, TopIs
<1>3. e \in Sessions
  BY <1>2 DEF Sessions
<1>4. e.phase = "failed" /\ e.wrapper = Top.wrapper /\ Top.wrapper.tool = None /\ ~e.popped
  <2>1. e.phase = "failed" /\ e.wrapper = Top.wrapper /\ e.popped = Top.popped
    BY <1>2 DEF Sessions
  <2>2. Top.wrapper.tool = None /\ ~Top.popped
    BY <1>1, <1>2 DEF Structure, Wrapped
  <2> QED BY <2>1, <2>2
<1> HIDE DEF e
<1>5. /\ stack' \in Seq(Sessions) /\ Len(stack') = Len(stack)
      /\ \A i \in 1 .. Len(stack) - 1 : stack'[i] = stack[i]
      /\ stack'[Len(stack)] = e
  BY <1>1, <1>3, Replace
<1>6. Inner = Len(stack) - 1 /\ Inner' = Inner
  BY <1>1, <1>2, <1>4, <1>5 DEF Inner
<1>7. modules' \in [Slugs -> Maps(Modules)]
  <2>1. CASE modules' = modules
    BY <1>1, <2>1 DEF SessionTypes
  <2>2. CASE modules' = [modules EXCEPT ![Top.slug] = Purged]
    BY <1>1, <1>2, <2>2, NothingIsMap DEF SessionTypes, Purged
  <2>3. ASSUME NEW t, RegistryText.tools \in SUBSET Tools,
               modules' = [modules EXCEPT ![Top.slug] = Cached(Before(t, RegistryText.tools))]
        PROVE  modules' \in [Slugs -> Maps(Modules)]
    <3>1. Cached(Before(t, RegistryText.tools)) \in Maps(Modules)
      BY <1>1, <2>3, LoadedIsMap DEF Before
    <3> QED BY <1>1, <1>2, <2>3, <3>1 DEF SessionTypes
  <2>4. HasPackage => RegistryText.tools \in SUBSET Tools
    BY <1>2 DEF HasPackage, RegistryText, TypeOK, Holds, Content
  <2> QED BY <2>1, <2>2, <2>3, <2>4 DEF LoadFails
<1>8. SessionTypes'
  BY <1>1, <1>5, <1>7 DEF SessionTypes, slots
<1>9. Nested' /\ Installed'
  BY <1>1, <1>2, <1>5, <1>6, SameNesting, SMTT(30)
<1>10. Wrapped'
  BY <1>1, <1>2, <1>4, <1>5 DEF Structure, Wrapped
<1> QED BY <1>2, <1>5, <1>6, <1>8, <1>9, <1>10 DEF Structure

LEMMA LoadStep ==
  ASSUME TypeOK, Structure, LoadPackage
  PROVE  /\ Structure' /\ Inner' = Inner + 1
         /\ \A i \in 1 .. Inner : stack'[i] = stack[i]
         /\ stack'[Inner'].slug = Top.slug
         /\ stack'[Inner'].registry = Loaded(RegistryText.tools)
<1> DEFINE loaded == Loaded(RegistryText.tools)
           e == [Top EXCEPT !.phase = "active", !.priorSlug = activeSlug,
                            !.priorClient = activeClient, !.registry = loaded]
<1>1. /\ stack \in Seq(Sessions) /\ stack # <<>> /\ Top.phase = "opened" /\ SetTop(e)
      /\ activeSlug' = Top.slug /\ activeClient' = Top.client
      /\ registries' = [registries EXCEPT ![Top.slug] = loaded]
      /\ UNCHANGED <<opened, lastCall>> /\ SessionTypes
  BY DEF LoadPackage, Activate, Structure, SessionTypes
<1>2. Len(stack) \in Nat \ {0} /\ Top = stack[Len(stack)] /\ Top \in Sessions
      /\ Top.slug \in Slugs
  BY <1>1, TopIs
<1>3. RegistryText.tools \in SUBSET Tools
  BY <1>2, SMTT(30) DEF LoadPackage, HasPackage, RegistryText, TypeOK, Holds, Content
<1>4. loaded \in Maps(Tools) /\ Cached(RegistryText.tools) \in Maps(Modules)
  BY <1>1, <1>3, LoadedIsMap
<1> HIDE DEF loaded
<1>5. e \in Sessions
  BY <1>1, <1>2, <1>4 DEF Sessions, SessionTypes
<1>6. /\ e.phase = "active" /\ e.wrapper = Top.wrapper
      /\ e.slug = Top.slug /\ e.client = Top.client /\ e.registry = loaded
      /\ e.priorSlug = activeSlug /\ e.priorClient = activeClient
      /\ e.popped = Top.popped
  BY <1>2 DEF Sessions
<1>7. Top.wrapper.tool = None /\ ~Top.popped
  BY <1>1, <1>2 DEF Structure, Wrapped
<1> HIDE DEF e
<1>8. /\ stack' \in Seq(Sessions) /\ Len(stack') = Len(stack)
      /\ \A i \in 1 .. Len(stack) - 1 : stack'[i] = stack[i]
      /\ stack'[Len(stack)] = e
  BY <1>1, <1>5, Replace
<1>9. Inner = Len(stack) - 1 /\ Inner' = Len(stack)
  BY <1>1, <1>2, <1>6, <1>8 DEF Inner
<1>10. SessionTypes'
  <2>1. modules' \in [Slugs -> Maps(Modules)]
    BY <1>1, <1>2, <1>4 DEF LoadPackage, SessionTypes
  <2>2. registries' \in [Slugs -> Maps(Tools)]
    BY <1>1, <1>2, <1>4 DEF SessionTypes
  <2>3. activeSlug' \in Slugs \union {None} /\ activeClient' \in 0 .. MaxSessions
    BY <1>1, <1>2 DEF Sessions
  <2> QED BY <1>1, <1>8, <2>1, <2>2, <2>3 DEF SessionTypes
<1>11. Nested'
  <2>1. \A i \in 1 .. Len(stack') : i < Len(stack') => stack'[i].phase = "active"
    BY <1>2, <1>8 DEF Structure, Nested
  <2>2. ASSUME NEW i \in 1 .. Inner'
        PROVE  /\ stack'[i].priorSlug = IF i = 1 THEN None ELSE stack'[i - 1].slug
               /\ stack'[i].priorClient = IF i = 1 THEN NoClient ELSE stack'[i - 1].client
    <3>1. CASE i < Len(stack)
      BY <1>2, <1>8, <1>9, <3>1 DEF Structure, Nested
    <3>2. CASE i = Len(stack)
      BY <1>2, <1>6, <1>8, <1>9, <3>2 DEF Structure, Nested
    <3> QED BY <1>2, <1>9, <3>1, <3>2
  <2>3. activeSlug' = stack'[Inner'].slug /\ activeClient' = stack'[Inner'].client /\ Inner' # 0
    BY <1>1, <1>2, <1>6, <1>8, <1>9
  <2> QED BY <2>1, <2>2, <2>3 DEF Nested
<1>12. Installed'
  <2>1. /\ registries'[Top.slug] = loaded
        /\ \A s \in Slugs \ {Top.slug} : registries'[s] = registries[s]
    BY <1>1, <1>2 DEF SessionTypes
  <2>2. ASSUME NEW s \in Slugs, registries'[s] # NoRegistry
        PROVE  \E i \in 1 .. Inner' : stack'[i].slug = s
    <3>1. CASE s = Top.slug
      BY <1>2, <1>6, <1>8, <1>9, <3>1
    <3>2. CASE s # Top.slug
      <4>1. PICK i \in 1 .. Inner : stack[i].slug = s
        BY <2>1, <2>2, <3>2 DEF Structure, Installed
      <4> QED BY <1>2, <1>8, <1>9, <4>1
    <3> QED BY <3>1, <3>2
  <2>3. ASSUME NEW i \in 1 .. Inner',
               \A j \in 1 .. Inner' : i < j => stack'[j].slug # stack'[i].slug
        PROVE  registries'[stack'[i].slug] =
                 IF stack'[i].popped THEN NoRegistry ELSE stack'[i].registry
    <3>1. CASE i = Len(stack)
      BY <1>6, <1>7, <1>8, <2>1, <3>1
    <3>2. CASE i < Len(stack)
      <4>1. stack'[i] = stack[i] /\ i \in 1 .. Inner /\ stack[i].slug # Top.slug
        BY <1>2, <1>6, <1>8, <1>9, <2>3, <3>2
      <4>2. \A j \in 1 .. Inner : i < j => stack[j].slug # stack[i].slug
        BY <1>2, <1>8, <1>9, <2>3, <4>1
      <4>3. stack[i].slug \in Slugs
        BY <4>1, InnerIs DEF Sessions
      <4> QED BY <2>1, <4>1, <4>2, <4>3 DEF Structure, Installed
    <3> QED BY <1>2, <1>9, <3>1, <3>2
  <2> QED BY <2>2, <2>3 DEF Installed
<1>13. Wrapped'
  <2>1. \A i \in 1 .. Len(stack) - 1 : stack'[i].popped => stack'[i].phase = "active"
    BY <1>2, <1>8 DEF Structure, Wrapped
  <2>2. \A i \in 1 .. Len(stack') : stack'[i].popped => stack'[i].phase = "active"
    BY <1>2, <1>6, <1>8, <2>1
  <2>3. \A i \in 1 .. Len(stack') : stack'[i].wrapper.tool # None =>
          /\ stack'[i].phase = "active"
          /\ stack'[i].wrapper.tool \in DOMAIN stack'[i].registry
          /\ stack'[i].wrapper.classes = stack'[i].registry[stack'[i].wrapper.tool]
    BY <1>2, <1>6, <1>7, <1>8, SMTT(30) DEF Structure, Wrapped
  <2> QED BY <1>1, <2>2, <2>3 DEF Structure, Wrapped
<1> QED BY <1>2, <1>6, <1>8, <1>9, <1>10, <1>11, <1>12, <1>13 DEF Structure, loaded

LEMMA CloseStep ==
  ASSUME Structure, CloseSession
  PROVE  /\ Structure' /\ Inner' <= Inner
         /\ \A i \in 1 .. Inner' :
              stack'[i].slug = stack[i].slug /\ stack'[i].registry = stack[i].registry
<1>1. /\ stack \in Seq(Sessions) /\ stack # <<>> /\ Top.phase # "opened"
      /\ stack' = Outer(Top)
      /\ UNCHANGED <<opened, modules, lastCall>> /\ SessionTypes
  BY DEF CloseSession, Structure, SessionTypes
<1>2. Len(stack) \in Nat \ {0} /\ Top = stack[Len(stack)] /\ Top \in Sessions
      /\ Top.slug \in Slugs
  BY <1>1, TopIs
<1>3. /\ stack' \in Seq(Sessions) /\ Len(stack') = Len(stack) - 1
      /\ \A i \in 1 .. Len(stack) - 1 :
           stack'[i] = [stack[i] EXCEPT !.popped =
                          @ \/ (Top.phase = "active" /\ stack[i].slug = Top.slug)]
  BY <1>1, <1>2, Pop
<1>9. ASSUME NEW i \in 1 .. Len(stack) - 1
      PROVE  /\ stack'[i].slug = stack[i].slug /\ stack'[i].client = stack[i].client
             /\ stack'[i].phase = stack[i].phase
             /\ stack'[i].priorSlug = stack[i].priorSlug
             /\ stack'[i].priorClient = stack[i].priorClient
             /\ stack'[i].registry = stack[i].registry
             /\ stack'[i].wrapper = stack[i].wrapper
             /\ stack'[i].popped <=>
                  stack[i].popped \/ (Top.phase = "active" /\ stack[i].slug = Top.slug)
  <2>1. stack[i] \in Sessions
    BY <1>1, <1>2
  <2> DEFINE gone == stack[i].popped \/ (Top.phase = "active" /\ stack[i].slug = Top.slug)
  <2>2. stack'[i] = [stack[i] EXCEPT !.popped = gone]
    BY <1>3
  <2> HIDE DEF gone
  <2>3. /\ stack'[i].slug = stack[i].slug /\ stack'[i].client = stack[i].client
        /\ stack'[i].phase = stack[i].phase
        /\ stack'[i].priorSlug = stack[i].priorSlug
        /\ stack'[i].priorClient = stack[i].priorClient
        /\ stack'[i].registry = stack[i].registry
        /\ stack'[i].wrapper = stack[i].wrapper
        /\ stack'[i].popped = gone
    BY <2>1, <2>2 DEF Sessions
  <2> QED BY <2>3 DEF gone
<1>4. \A i \in 1 .. Len(stack) - 1 : stack'[i].phase = "active"
  BY <1>2, <1>9 DEF Structure, Nested
<1>5. Inner' = Len(stack) - 1
  BY <1>2, <1>3, <1>4 DEF Inner
<1>6. Wrapped'
  BY <1>1, <1>2, <1>3, <1>4, <1>9, SMTT(30) DEF Structure, Wrapped
<1>7. CASE Top.phase = "active"
  <2>1. /\ activeSlug' = Top.priorSlug /\ activeClient' = Top.priorClient
        /\ registries' = [registries EXCEPT ![Top.slug] = NoRegistry]
    BY <1>7 DEF CloseSession, Restores, PopsRegistry
  <2>2. Inner = Len(stack)
    BY <1>2, <1>7 DEF Inner
  <2>3. /\ registries'[Top.slug] = NoRegistry
        /\ \A s \in Slugs \ {Top.slug} : registries'[s] = registries[s]
    BY <1>1, <1>2, <2>1 DEF SessionTypes
  <2>4. SessionTypes'
    <3>1. registries' \in [Slugs -> Maps(Tools)]
      BY <1>1, <1>2, <2>1, NothingIsMap DEF SessionTypes
    <3>2. activeSlug' \in Slugs \union {None} /\ activeClient' \in 0 .. MaxSessions
      BY <1>2, <2>1 DEF Sessions
    <3>3. opened' \in 0 .. MaxSessions /\ Len(stack') <= opened'
      BY <1>1, <1>2, <1>3 DEF SessionTypes
    <3> QED BY <1>1, <1>3, <3>1, <3>2, <3>3 DEF SessionTypes
  <2>5. Nested'
    <3>1. \A i \in 1 .. Inner' :
            /\ stack'[i].priorSlug = IF i = 1 THEN None ELSE stack'[i - 1].slug
            /\ stack'[i].priorClient = IF i = 1 THEN NoClient ELSE stack'[i - 1].client
      <4>1. SUFFICES ASSUME NEW i \in 1 .. Len(stack) - 1
                     PROVE  /\ stack'[i].priorSlug = IF i = 1 THEN None ELSE stack'[i - 1].slug
                            /\ stack'[i].priorClient = IF i = 1 THEN NoClient ELSE stack'[i - 1].client
        BY <1>5
      <4>2. /\ stack[i].priorSlug = IF i = 1 THEN None ELSE stack[i - 1].slug
            /\ stack[i].priorClient = IF i = 1 THEN NoClient ELSE stack[i - 1].client
        BY <1>2, <2>2 DEF Structure, Nested
      <4>3. i # 1 => stack'[i - 1].slug = stack[i - 1].slug
                     /\ stack'[i - 1].client = stack[i - 1].client
        BY <1>2, <1>9
      <4>4. stack'[i].priorSlug = stack[i].priorSlug /\ stack'[i].priorClient = stack[i].priorClient
        BY <1>9
      <4> QED BY <4>2, <4>3, <4>4
    <3>2. /\ activeSlug' = IF Inner' = 0 THEN None ELSE stack'[Inner'].slug
          /\ activeClient' = IF Inner' = 0 THEN NoClient ELSE stack'[Inner'].client
      BY <1>2, <1>9, <1>5, <2>1, <2>2 DEF Structure, Nested
    <3> QED BY <1>3, <1>4, <3>1, <3>2 DEF Nested
  <2>6. Installed'
    <3>1. ASSUME NEW s \in Slugs, registries'[s] # NoRegistry
          PROVE  \E i \in 1 .. Inner' : stack'[i].slug = s
      <4>1. s # Top.slug /\ registries[s] # NoRegistry
        BY <2>3, <3>1
      <4>2. PICK i \in 1 .. Inner : stack[i].slug = s
        BY <4>1 DEF Structure, Installed
      <4> QED BY <1>2, <1>5, <1>9, <2>2, <4>1, <4>2
    <3>2. ASSUME NEW i \in 1 .. Inner',
                 \A j \in 1 .. Inner' : i < j => stack'[j].slug # stack'[i].slug
          PROVE  registries'[stack'[i].slug] =
                   IF stack'[i].popped THEN NoRegistry ELSE stack'[i].registry
      <4>1. /\ i \in 1 .. Inner /\ i \in 1 .. Len(stack) - 1
            /\ stack'[i].slug = stack[i].slug /\ stack'[i].registry = stack[i].registry
            /\ stack'[i].popped <=> stack[i].popped \/ stack[i].slug = Top.slug
        BY <1>2, <1>5, <1>7, <1>9, <2>2
      <4>2. CASE stack[i].slug = Top.slug
        BY <2>3, <4>1, <4>2
      <4>3. CASE stack[i].slug # Top.slug
        <5>1. \A j \in 1 .. Inner : i < j => stack[j].slug # stack[i].slug
          BY <1>2, <1>5, <1>9, <2>2, <3>2, <4>1, <4>3
        <5>2. stack[i].slug \in Slugs
          BY <4>1, InnerIs DEF Sessions
        <5> QED BY <2>3, <4>1, <4>3, <5>1, <5>2 DEF Structure, Installed
      <4> QED BY <4>2, <4>3
    <3> QED BY <3>1, <3>2 DEF Installed
  <2> QED BY <1>2, <1>5, <1>6, <1>9, <2>2, <2>4, <2>5, <2>6 DEF Structure
<1>8. CASE Top.phase # "active"
  <2>1. UNCHANGED slots /\ Inner = Len(stack) - 1
    BY <1>2, <1>8 DEF CloseSession, Inner
  <2>2. SessionTypes'
    BY <1>1, <1>2, <1>3, <2>1 DEF SessionTypes, slots
  <2>3. /\ UNCHANGED <<activeSlug, activeClient, registries>> /\ Inner' = Inner
        /\ Inner \in 0 .. Len(stack) - 1
        /\ \A i \in 1 .. Inner :
             /\ stack'[i].slug = stack[i].slug /\ stack'[i].client = stack[i].client
             /\ stack'[i].priorSlug = stack[i].priorSlug
             /\ stack'[i].priorClient = stack[i].priorClient
             /\ stack'[i].registry = stack[i].registry
             /\ stack'[i].popped <=> stack[i].popped
    BY <1>2, <1>5, <1>8, <1>9, <2>1 DEF slots
  <2>4. Nested'
    <3>1. \A i \in 1 .. Inner :
            /\ stack'[i].priorSlug = IF i = 1 THEN None ELSE stack'[i - 1].slug
            /\ stack'[i].priorClient = IF i = 1 THEN NoClient ELSE stack'[i - 1].client
      <4>1. SUFFICES ASSUME NEW i \in 1 .. Inner
                     PROVE  /\ stack'[i].priorSlug = IF i = 1 THEN None ELSE stack'[i - 1].slug
                            /\ stack'[i].priorClient = IF i = 1 THEN NoClient ELSE stack'[i - 1].client
        OBVIOUS
      <4>2. /\ stack[i].priorSlug = IF i = 1 THEN None ELSE stack[i - 1].slug
            /\ stack[i].priorClient = IF i = 1 THEN NoClient ELSE stack[i - 1].client
        BY DEF Structure, Nested
      <4>3. i # 1 => stack'[i - 1].slug = stack[i - 1].slug
                     /\ stack'[i - 1].client = stack[i - 1].client
        BY <1>2, <2>3
      <4>4. stack'[i].priorSlug = stack[i].priorSlug /\ stack'[i].priorClient = stack[i].priorClient
        BY <2>3
      <4> QED BY <4>2, <4>3, <4>4
    <3>2. /\ activeSlug' = IF Inner' = 0 THEN None ELSE stack'[Inner'].slug
          /\ activeClient' = IF Inner' = 0 THEN NoClient ELSE stack'[Inner'].client
      BY <1>2, <2>3 DEF Structure, Nested
    <3> QED BY <1>3, <1>4, <2>3, <3>1, <3>2 DEF Nested
  <2>5. Installed'
    BY <2>3 DEF Structure, Installed
  <2> QED BY <1>2, <1>5, <1>6, <1>9, <2>1, <2>2, <2>3, <2>4, <2>5 DEF Structure
<1> QED BY <1>7, <1>8

LEMMA TakeStep ==
  ASSUME Structure, NEW t \in Tools, TakeWrapper(t)
  PROVE  /\ Structure' /\ Inner' = Inner
         /\ \A i \in 1 .. Inner :
              stack'[i].slug = stack[i].slug /\ stack'[i].registry = stack[i].registry
<1>1. PICK c \in ActiveRegistry(t) : SetTop([Top EXCEPT !.wrapper = [tool |-> t, classes |-> c]])
  BY DEF TakeWrapper
<1> DEFINE e == [Top EXCEPT !.wrapper = [tool |-> t, classes |-> c]]
<1>2. /\ stack \in Seq(Sessions) /\ stack # <<>> /\ Top.phase = "active" /\ SetTop(e)
      /\ UNCHANGED <<slots, opened, modules, lastCall>> /\ SessionTypes
  BY <1>1 DEF TakeWrapper, Structure, SessionTypes
<1>3. Len(stack) \in Nat \ {0} /\ Top = stack[Len(stack)] /\ Top \in Sessions
      /\ Top.slug \in Slugs
  BY <1>2, TopIs
<1>4. Inner = Len(stack) /\ activeSlug = Top.slug
  BY <1>2, <1>3 DEF Inner, Structure, Nested
<1>5. registries[Top.slug] \in {NoRegistry, Top.registry}
  BY <1>3, <1>4 DEF Structure, Installed
<1>6. t \in DOMAIN Top.registry /\ c = Top.registry[t]
  BY <1>4, <1>5, NothingIsMap DEF ActiveRegistry
<1>7. c \in Content
  <2>1. Holds(Tools, Top.registry)
    BY <1>3, SessionIsRecord DEF IsSession
  <2> QED BY <1>6, <2>1 DEF Holds
<1>8. e \in Sessions
  BY <1>3, <1>7 DEF Sessions
<1>9. /\ e.phase = Top.phase /\ e.slug = Top.slug /\ e.client = Top.client
      /\ e.priorSlug = Top.priorSlug /\ e.priorClient = Top.priorClient
      /\ e.registry = Top.registry
      /\ e.wrapper.tool = t /\ e.wrapper.classes = c /\ e.popped = Top.popped
  BY <1>3 DEF Sessions
<1> HIDE DEF e
<1>10. /\ stack' \in Seq(Sessions) /\ Len(stack') = Len(stack)
       /\ \A i \in 1 .. Len(stack) - 1 : stack'[i] = stack[i]
       /\ stack'[Len(stack)] = e
  BY <1>2, <1>8, Replace
<1>11. Inner' = Inner
  BY <1>2, <1>3, <1>4, <1>9, <1>10 DEF Inner
<1>12. SessionTypes'
  BY <1>2, <1>10 DEF SessionTypes, slots
<1>13. \A i \in 1 .. Inner :
         /\ stack'[i].slug = stack[i].slug /\ stack'[i].client = stack[i].client
         /\ stack'[i].priorSlug = stack[i].priorSlug
         /\ stack'[i].priorClient = stack[i].priorClient
         /\ stack'[i].registry = stack[i].registry
         /\ stack'[i].popped = stack[i].popped
  BY <1>3, <1>4, <1>9, <1>10
<1>14. \A i \in 1 .. Len(stack) : stack'[i].phase = stack[i].phase \/ i = Len(stack)
  BY <1>3, <1>10
<1>15. Nested' /\ Installed'
  BY <1>2, <1>10, <1>11, <1>13, <1>14, SameNesting
<1>16. Wrapped'
  <2>1. \A i \in 1 .. Len(stack') : stack'[i].popped => stack'[i].phase = "active"
    <3>1. \A i \in 1 .. Len(stack) - 1 : stack'[i].popped => stack'[i].phase = "active"
      BY <1>3, <1>10 DEF Structure, Wrapped
    <3> QED BY <1>2, <1>3, <1>9, <1>10, <3>1
  <2>2. \A i \in 1 .. Len(stack') : stack'[i].wrapper.tool # None =>
          /\ stack'[i].phase = "active"
          /\ stack'[i].wrapper.tool \in DOMAIN stack'[i].registry
          /\ stack'[i].wrapper.classes = stack'[i].registry[stack'[i].wrapper.tool]
    <3>1. \A i \in 1 .. Len(stack) - 1 : stack'[i].wrapper.tool # None =>
            /\ stack'[i].phase = "active"
            /\ stack'[i].wrapper.tool \in DOMAIN stack'[i].registry
            /\ stack'[i].wrapper.classes = stack'[i].registry[stack'[i].wrapper.tool]
      BY <1>3, <1>10 DEF Structure, Wrapped
    <3> QED BY <1>2, <1>3, <1>6, <1>9, <1>10, <3>1
  <2> QED BY <1>2, <2>1, <2>2 DEF Structure, Wrapped
<1> QED BY <1>11, <1>12, <1>13, <1>15, <1>16 DEF Structure

LEMMA CallStep ==
  ASSUME Structure, Call
  PROVE  Structure' /\ Inner' = Inner /\ \A i \in 1 .. Inner : stack'[i] = stack[i]
<1>1. /\ stack # <<>> /\ SessionTypes /\ UNCHANGED <<stack, opened, slots, modules>>
      /\ Top.wrapper.tool # None
      /\ lastCall' = [by |-> Top.client, client |-> activeClient]
  BY DEF Call, Structure
<1>2. Len(stack) \in Nat \ {0} /\ Top = stack[Len(stack)] /\ Top \in Sessions
  BY <1>1, TopIs
<1>3. Top.phase = "active"
  BY <1>1, <1>2 DEF Structure, Wrapped
<1>4. activeClient = Top.client
  BY <1>2, <1>3 DEF Structure, Nested, Inner
<1>5. activeClient \in 0 .. MaxSessions
  BY <1>1 DEF SessionTypes
<1>6. lastCall' \in [by : 0 .. MaxSessions, client : 0 .. MaxSessions]
      /\ lastCall'.client = lastCall'.by
  BY <1>1, <1>4, <1>5
<1>7. SessionTypes'
  BY <1>1, <1>6 DEF SessionTypes, slots
<1>8. Nested' /\ Installed' /\ Inner' = Inner
  BY <1>1 DEF Structure, Nested, Installed, Inner, slots
<1>9. Wrapped'
  BY <1>1, <1>6 DEF Structure, Wrapped
<1> QED BY <1>1, <1>7, <1>8, <1>9 DEF Structure

-----------------------------------------------------------------------------
(* IsWhole, with the tools of the generation. *)
WholeOf(registry, g, ts) ==
  /\ DOMAIN registry = ts
  /\ \A t \in ts :
       \E u \in Namesakes(t, ts) :
         registry[t] = [kind |-> "classes", gen |-> g, tools |-> {u}]

(* What the sessions in progress have loaded. *)
AllWhole ==
  \A i \in 1 .. Inner : ~sealed[stack[i].slug] =>
    \E g \in 1 .. Len(made) : WholeOf(stack[i].registry, g, made[g])

(* A package that is clean loads whole. *)
LEMMA CleanLoadIsWhole ==
  ASSUME TypeOK, AllClean, Structure, LoadPackage, ~sealed[Top.slug]
  PROVE  \E g \in 1 .. Len(made) : WholeOf(Loaded(RegistryText.tools), g, made[g])
<1>1. stack # <<>> /\ SessionTypes /\ Top.slug \in Slugs
  BY TopIs DEF LoadPackage, Structure
<1>2. PICK g \in 1 .. Len(made) :
        RegistryText.tools = made[g] /\ MadeBy(package[Top.slug], g)
  BY <1>1 DEF LoadPackage, HasPackage, RegistryText, AllClean, Clean
<1>3. made[g] \in SUBSET Tools
  BY <1>2 DEF TypeOK
<1>4. /\ DOMAIN Loaded(made[g]) = made[g]
      /\ \A t \in made[g] : \E b \in made[g] :
           Binds(b, t, made[g]) /\ Loaded(made[g])[t] = Found(Module[b])
  BY <1>1, <1>3, LoadedIsMap
<1>5. ASSUME NEW t \in made[g]
      PROVE  \E u \in Namesakes(t, made[g]) :
               Loaded(made[g])[t] = [kind |-> "classes", gen |-> g, tools |-> {u}]
  <2>1. PICK b \in made[g] : Class[b] = Class[t] /\ Loaded(made[g])[t] = Found(Module[b])
    BY <1>4 DEF Binds, Namesakes
  <2>2. MayImport(b) /\ b \in Tools
    BY <1>2, <1>3 DEF LoadPackage
  <2>3. Found(Module[b]).kind \in {"classes", "torn"}
    BY <2>2 DEF MayImport, Importable
  <2>4. /\ Module[b] \in DOMAIN package[Top.slug] \intersect Modules
        /\ Found(Module[b]) = package[Top.slug][Module[b]] /\ Found(Module[b]) \in Content
    BY <1>1, <2>2, <2>3, FoundIs DEF Modules
  <2>5. Found(Module[b]).kind = "classes" /\ Found(Module[b]).gen = g
    BY <1>2, <2>3, <2>4 DEF MadeBy
  <2>6. PICK u \in made[g] : Found(Module[b]).tools = {u}
    BY <1>2, <2>4, <2>5 DEF MadeBy
  <2>7. Class[u] = Class[t]
    BY <2>1, <2>2, <2>5, <2>6 DEF MayImport, Importable
  <2>8. Found(Module[b]) = [kind |-> "classes", gen |-> g, tools |-> {u}]
    BY <2>4, <2>5, <2>6 DEF Content
  <2> QED BY <2>1, <2>6, <2>7, <2>8 DEF Namesakes
<1>6. WholeOf(Loaded(made[g]), g, made[g])
  BY <1>4, <1>5 DEF WholeOf
<1> QED BY <1>2, <1>6

(* Generations are added, never changed, and a seal is never taken off. *)
LEMMA HistoryGrows ==
  ASSUME TypeOK, [CodegenNext]_vars
  PROVE  /\ Len(made) \in Nat /\ Len(made') \in Nat /\ Len(made) <= Len(made')
         /\ \A g \in 1 .. Len(made) : made'[g] = made[g]
         /\ \A s \in Slugs : sealed[s] => sealed'[s]
<1>1. CASE PassGate
  BY <1>1 DEF PassGate, TypeOK
<1>2. ASSUME NEW s \in Slugs, Seal(s)
      PROVE  made' = made /\ \A r \in Slugs : sealed[r] => sealed'[r]
  BY <1>2 DEF Seal, TypeOK
<1>3. ASSUME \/ \E s \in Slugs : AddOwnFile(s)
             \/ Start \/ Refused \/ GateRefuses \/ Wipe \/ Wiped
             \/ WriteTool \/ WriteSmoke \/ WriteRegistry \/ GenerateFails \/ UNCHANGED vars
             \/ \E s \in Slugs, tools \in Listings : Identified(s, tools)
      PROVE  UNCHANGED <<made, sealed>>
  BY <1>3 DEF AddOwnFile, Start, Refused, GateRefuses, Wipe, Wiped, WriteTool, WriteSmoke,
              WriteRegistry, GenerateFails, Identified, vars
<1>4. Len(made) \in Nat
  BY DEF TypeOK
<1> QED BY <1>1, <1>2, <1>3, <1>4 DEF CodegenNext

(* Sessions leave packages and commands alone. *)
LEMMA StepOfCodegen ==
  ASSUME [Next]_<<vars, interpreter>>
  PROVE  [CodegenNext]_vars
<1>1. CASE SessionNext
  BY <1>1 DEF SessionNext, OpenSession, LoadPackage, LoadFails, CloseSession, TakeWrapper, Call
<1>2. CASE CodegenNext \/ UNCHANGED <<vars, interpreter>>
  BY <1>2
<1> QED BY <1>1, <1>2 DEF Next

SInv == CodegenInv /\ Structure /\ AllWhole

LEMMA SInvInit ==
  ASSUME SInit
  PROVE  SInv
<1> USE DEF SInit
<1>1. CodegenInv
  BY CodegenInit
<1>2. Len(stack) = 0 /\ stack \in Seq(Sessions) /\ Inner = 0
  BY DEF Inner
<1>3. SessionTypes
  BY <1>2, NothingIsMap DEF SessionTypes, NoClient
<1>4. Nested /\ Installed /\ Wrapped
  <2>1. \A s \in Slugs : registries[s] = NoRegistry
    OBVIOUS
  <2>2. lastCall.by = lastCall.client
    BY DEF NoClient
  <2> QED BY <1>2, <2>1, <2>2 DEF Nested, Installed, Wrapped
<1> QED BY <1>1, <1>2, <1>3, <1>4 DEF SInv, Structure, AllWhole

LEMMA SInvStep ==
  ASSUME SInv, [Next]_<<vars, interpreter>>
  PROVE  SInv'
<1>1. CodegenInv' /\ CodegenInv /\ Structure
  BY StepOfCodegen, CodegenStep DEF SInv
<1>2. TypeOK /\ AllClean
  BY <1>1 DEF CodegenInv
<1>3. /\ Len(made) <= Len(made') /\ Len(made) \in Nat /\ Len(made') \in Nat
      /\ \A g \in 1 .. Len(made) : made'[g] = made[g]
      /\ \A s \in Slugs : sealed[s] => sealed'[s]
  BY <1>2, StepOfCodegen, HistoryGrows
(* Sessions that were there before have what they had. *)
<1>4. ASSUME NEW i \in 1 .. Inner, stack'[i].slug = stack[i].slug,
             stack'[i].registry = stack[i].registry, ~sealed'[stack'[i].slug]
      PROVE  \E g \in 1 .. Len(made') : WholeOf(stack'[i].registry, g, made'[g])
  <2>1. stack[i].slug \in Slugs
    BY <1>1, InnerIs DEF Sessions
  <2>2. PICK g \in 1 .. Len(made) : WholeOf(stack[i].registry, g, made[g])
    BY <1>3, <1>4, <2>1 DEF SInv, AllWhole
  <2>3. g \in 1 .. Len(made') /\ made'[g] = made[g]
    BY <1>3
  <2> QED BY <1>4, <2>2, <2>3
<1>5. ASSUME Inner' \in 0 .. Inner,
             \A i \in 1 .. Inner' : /\ stack'[i].slug = stack[i].slug
                                    /\ stack'[i].registry = stack[i].registry
      PROVE  AllWhole'
  BY <1>1, <1>4, <1>5, InnerIs DEF AllWhole
<1>6. ASSUME UNCHANGED interpreter PROVE Structure' /\ AllWhole'
  <2>1. Structure' /\ Inner' = Inner
    <3>1. UNCHANGED <<stack, opened, activeSlug, activeClient, registries, modules, lastCall>>
      BY <1>6 DEF interpreter, slots
    <3>2. Inner' = Inner
      BY <3>1 DEF Inner
    <3>3. SessionTypes' /\ Nested'
      BY <1>1, <3>1, <3>2 DEF Structure, SessionTypes, Nested
    <3>4. Installed' /\ Wrapped'
      BY <1>1, <3>1, <3>2 DEF Structure, Installed, Wrapped
    <3> QED BY <3>2, <3>3, <3>4 DEF Structure
  <2> QED BY <1>1, <1>5, <1>6, <2>1, InnerIs DEF interpreter
<1>7. ASSUME NEW s \in Slugs, OpenSession(s) PROVE Structure' /\ AllWhole'
  BY <1>1, <1>5, <1>7, OpenStep, InnerIs
<1>8. CASE LoadFails
  <2>1. Structure' /\ Inner' = Inner /\ \A i \in 1 .. Inner : stack'[i] = stack[i]
    BY <1>1, <1>2, <1>8, LoadFailsStep
  <2>2. Inner' \in 0 .. Inner
    BY <1>1, <2>1, InnerIs
  <2>3. \A i \in 1 .. Inner' : /\ stack'[i].slug = stack[i].slug
                               /\ stack'[i].registry = stack[i].registry
    BY <2>1
  <2>4. AllWhole'
    BY <1>5, <2>2, <2>3
  <2> QED BY <1>1, <2>1, <2>4 DEF SInv
<1>9. CASE CloseSession
  <2>1. /\ Structure' /\ Inner' <= Inner
        /\ \A i \in 1 .. Inner' :
             stack'[i].slug = stack[i].slug /\ stack'[i].registry = stack[i].registry
    BY <1>1, <1>9, CloseStep
  <2>2. Inner' \in 0 .. Inner
    <3>1. Inner \in Nat /\ Len(stack') \in Nat
      BY <1>1, <2>1, InnerIs DEF Structure, SessionTypes
    <3>2. Inner' \in Nat
      BY <3>1 DEF Inner
    <3> QED BY <2>1, <3>1, <3>2
  <2>3. \A i \in 1 .. Inner' : /\ stack'[i].slug = stack[i].slug
                               /\ stack'[i].registry = stack[i].registry
    BY <2>1
  <2>4. AllWhole'
    BY <1>5, <2>2, <2>3
  <2> QED BY <1>1, <2>1, <2>4 DEF SInv
<1>10. ASSUME NEW t \in Tools, TakeWrapper(t) PROVE Structure' /\ AllWhole'
  BY <1>1, <1>5, <1>10, TakeStep, InnerIs
<1>11. CASE Call
  <2>1. Structure' /\ Inner' = Inner /\ \A i \in 1 .. Inner : stack'[i] = stack[i]
    BY <1>1, <1>11, CallStep
  <2>2. Inner' \in 0 .. Inner
    BY <1>1, <2>1, InnerIs
  <2>3. \A i \in 1 .. Inner' : /\ stack'[i].slug = stack[i].slug
                               /\ stack'[i].registry = stack[i].registry
    BY <2>1
  <2>4. AllWhole'
    BY <1>5, <2>2, <2>3
  <2> QED BY <1>1, <2>1, <2>4 DEF SInv
<1>12. CASE LoadPackage
  <2>1. /\ Structure' /\ Inner' = Inner + 1
        /\ \A i \in 1 .. Inner : stack'[i] = stack[i]
        /\ stack'[Inner'].slug = Top.slug
        /\ stack'[Inner'].registry = Loaded(RegistryText.tools)
    BY <1>1, <1>2, <1>12, LoadStep
  <2>2. UNCHANGED <<made, sealed>>
    BY <1>12 DEF LoadPackage, vars
  <2>3. Inner \in Nat
    BY <1>1, InnerIs
  <2>4. ASSUME NEW i \in 1 .. Inner', ~sealed'[stack'[i].slug]
        PROVE  \E g \in 1 .. Len(made') : WholeOf(stack'[i].registry, g, made'[g])
    <3>1. CASE i \in 1 .. Inner
      BY <1>4, <2>1, <2>4, <3>1
    <3>2. CASE i = Inner'
      <4>1. ~sealed[Top.slug]
        BY <2>1, <2>2, <2>4, <3>2
      <4>2. PICK g \in 1 .. Len(made) : WholeOf(Loaded(RegistryText.tools), g, made[g])
        BY <1>1, <1>2, <1>12, <4>1, CleanLoadIsWhole
      <4> QED BY <2>1, <2>2, <3>2, <4>2
    <3> QED BY <2>1, <2>3, <3>1, <3>2
  <2>5. AllWhole'
    BY <2>4 DEF AllWhole
  <2> QED BY <1>1, <2>1, <2>5 DEF SInv
<1> QED BY <1>1, <1>6, <1>7, <1>8, <1>9, <1>10, <1>11, <1>12 DEF SInv, Next, SessionNext

LEMMA SInvAlways == Spec => []SInv
BY SInvInit, SInvStep, PTL DEF Spec

-----------------------------------------------------------------------------
(* Every variable keeps its type, in the command and in the interpreter.   *)
THEOREM TypeCorrect == Spec => []STypeOK
<1>1. ASSUME SInv PROVE STypeOK
  <2>1. TypeOK /\ SessionTypes
    BY <1>1 DEF SInv, CodegenInv, Structure
  <2>2. \A i \in 1 .. Len(stack) : IsSession(stack[i])
    BY <1>1, InnerIs, SessionIsRecord DEF SInv
  <2>3. \A s \in Slugs : Holds(Tools, registries[s]) /\ Holds(Modules, modules[s])
    BY <2>1, HoldsIsMap DEF SessionTypes
  <2> QED BY <2>1, <2>2, <2>3 DEF STypeOK, SessionTypes
<1> QED BY <1>1, SInvAlways, PTL

(* Writing `__init__.py' last is enough: what a session loads from a       *)
(* directory the wipe could clear is the whole of one generation, whatever *)
(* generations failed before and at whatever file, with every tool bound   *)
(* to the classes of a tool of its class name.                             *)
THEOREM LoadsAreWhole == Spec => []LoadIsWhole
<1>1. ASSUME SInv PROVE LoadIsWhole
  <2>1. ASSUME NEW i \in Active, ~sealed[stack[i].slug]
        PROVE  \E g \in 1 .. Len(made) : IsWhole(stack[i].registry, g)
    <3>1. i \in 1 .. Inner
      BY <1>1, <2>1, InnerIs DEF SInv, Active
    <3>2. PICK g \in 1 .. Len(made) : WholeOf(stack[i].registry, g, made[g])
      BY <1>1, <2>1, <3>1 DEF SInv, AllWhole
    <3>3. IsWhole(stack[i].registry, g)
      BY <3>2 DEF IsWhole, WholeOf
    <3> QED BY <3>3
  <2> QED BY <2>1 DEF LoadIsWhole
<1> QED BY <1>1, SInvAlways, PTL

(* A command that says it succeeded wrote every tool, and nothing it wrote *)
(* later took a file back that was not shared by name.                     *)
THEOREM SuccessesAreWhole == Spec => []SuccessIsWhole
<1>1. ASSUME SInv PROVE SuccessIsWhole
  BY <1>1, LoopImpliesWhole DEF SInv, CodegenInv
<1> QED BY <1>1, SInvAlways, PTL

(* The slots are those of the innermost session that is set up, and empty  *)
(* when there is none.  Its registry is there as it installed it, or gone  *)
(* once a session of its slug has ended inside it.                         *)
THEOREM SlotsFollowNesting == Spec => []SlotsOfInnermost
<1>1. ASSUME SInv PROVE SlotsOfInnermost
  <2>1. Active = 1 .. Inner /\ Inner \in Nat
    BY <1>1, InnerIs DEF SInv, Active
  <2>2. CASE Inner = 0
    <3>1. Active = {}
      BY <2>1, <2>2
    <3>2. activeSlug = None /\ activeClient = NoClient
      BY <1>1, <2>2 DEF SInv, Structure, Nested
    <3>3. \A s \in Slugs : registries[s] = NoRegistry
      BY <1>1, <2>2 DEF SInv, Structure, Installed
    <3> QED BY <3>1, <3>2, <3>3 DEF SlotsOfInnermost
  <2>3. CASE Inner # 0
    <3>1. Inner \in Active /\ \A j \in Active : j <= Inner
      BY <2>1, <2>3
    <3>2. (CHOOSE i \in Active : \A j \in Active : j <= i) = Inner
      BY <2>1, <3>1
    <3>3. activeSlug = stack[Inner].slug /\ activeClient = stack[Inner].client
      BY <1>1, <2>3 DEF SInv, Structure, Nested
    <3>4. registries[stack[Inner].slug] =
            IF stack[Inner].popped THEN NoRegistry ELSE stack[Inner].registry
      BY <1>1, <2>1, <2>3 DEF SInv, Structure, Installed
    <3> QED BY <3>1, <3>2, <3>3, <3>4 DEF SlotsOfInnermost, Innermost
  <2> QED BY <2>2, <2>3
<1> QED BY <1>1, SInvAlways, PTL

(* A wrapper never has the classes, and a call never the client, of        *)
(* another session.                                                        *)
THEOREM WrappersAreOwn == Spec => []WrapperOfItsSession
<1>1. ASSUME SInv PROVE WrapperOfItsSession
  BY <1>1 DEF SInv, Structure, Wrapped, WrapperOfItsSession, Active
<1> QED BY <1>1, SInvAlways, PTL

(* No step loses a file of the operator's without consent. *)
THEOREM DataIsKept == Spec => DataKept
<1>1. ASSUME SInv, [Next]_<<vars, interpreter>>
      PROVE  [\A s \in Slugs : \A f \in Lost(s) :
                consent \/ package[s][f].gen = Len(made)]_vars
  <2>1. TypeOK /\ Progress /\ NothingOfTheirs /\ [CodegenNext]_vars
    BY <1>1, StepOfCodegen DEF SInv, CodegenInv
  <2> QED BY <2>1, KeptStep
<1> QED BY <1>1, SInvAlways, PTL DEF Spec, DataKept
=============================================================================
