------------------------------ MODULE Manifests ------------------------------
(***************************************************************************)
(* Resolving an agent manifest (manifest.rs): a chain of AgentVariant      *)
(* files is followed from the leaf down to the complete Agent, each        *)
(* version and name is checked on the way down, the documents are merged   *)
(* on the way up and every expansion is decoded and validated.             *)
(* Documents are YAML values: strings, lists, mappings and null.  The      *)
(* elements of a list are decoded records; only what the rules compare is  *)
(* kept of them.                                                           *)
(***************************************************************************)
EXTENDS Naturals, Sequences, FiniteSets

CONSTANTS
    Directories,      \* directories of manifests: functions from file names to documents
    Leaves,           \* the file names a user asks to apply
    Conventional,     \* agent.yaml and the names agent.<variant>.yaml
    MaxVariantChain   \* MAX_VARIANT_CHAIN

VARIABLES
    files,            \* the directory's documents, by file name
    leaf,             \* the manifest that is resolved
    chain,            \* manifests entered, from the leaf on
    level,            \* how many of them are not merged yet
    value,            \* what the manifests merged so far expand to, or NotYet
    outcome           \* "resolving", "resolved", or why the manifest is refused

manifestVars == <<files, leaf, chain, level, value, outcome>>

Null == [is |-> "null"]
Str(s) == [is |-> "string", of |-> s]
List(l) == [is |-> "list", of |-> l]
Map(f) == [is |-> "map", of |-> f]
NotYet == [is |-> "nothing"]
IsMap(v) == v.is = "map"

API_VERSION == "v1alpha1"
MANIFEST_FILE == "agent.yaml"
Variants == Conventional \ {MANIFEST_FILE}

\* The field of a mapping, NotYet when it is absent.
Field(v, k) == IF IsMap(v) /\ k \in DOMAIN v.of THEN v.of[k] ELSE NotYet
IsString(v) == v.is = "string"
ListAt(v, k) == LET l == Field(v, k) IN IF l.is = "list" THEN l.of ELSE <<>>

-----------------------------------------------------------------------------
(* Merging *)

\* Both are tagged unions and their tags differ: one is one logical choice.
Retagged(base, patch) ==
    LET old == Field(base, "type") new == Field(patch, "type")
    IN IsString(old) /\ IsString(new) /\ old # new

RECURSIVE merge_value_MixingTags(_, _)
merge_value_MixingTags(base, patch) ==
    IF ~IsMap(base) \/ ~IsMap(patch) THEN patch
    ELSE LET b == base.of p == patch.of
             removed == {k \in DOMAIN b \cap DOMAIN p : p[k] = Null}
         IN Map([k \in (DOMAIN b \cup DOMAIN p) \ removed |->
                    IF k \notin DOMAIN p THEN b[k]
                    ELSE IF k \notin DOMAIN b THEN p[k] ELSE merge_value_MixingTags(b[k], p[k])])

\* merge_value: mappings merge, everything else replaces, null removes what is
\* inherited and stays where nothing is.
RECURSIVE merge_value(_, _)
merge_value(base, patch) ==
    IF ~IsMap(base) \/ ~IsMap(patch) \/ Retagged(base, patch) THEN patch
    ELSE LET b == base.of p == patch.of
             removed == {k \in DOMAIN b \cap DOMAIN p : p[k] = Null}
         IN Map([k \in (DOMAIN b \cup DOMAIN p) \ removed |->
                    IF k \notin DOMAIN p THEN b[k]
                    ELSE IF k \notin DOMAIN b THEN p[k] ELSE merge_value(b[k], p[k])])

-----------------------------------------------------------------------------
(* Validation of a complete agent *)

Mediated(kind) == kind \in {"claudeCode", "codex"}
\* manages_environment and conflicts_with_managed_secret: what a harness sets itself.
ManagedSecrets(kind) == IF Mediated(kind) THEN {<<kind, "token">>} ELSE {}
ManagedVariables(kind) ==
    ManagedSecrets(kind) \cup (IF Mediated(kind) THEN {<<kind, "home">>} ELSE {})
ManagedPlaceholders(kind) == IF Mediated(kind) THEN {<<kind, "placeholder">>} ELSE {}

Kinds(spec) == {h.type : h \in {ListAt(spec, "harnesses")[i] : i \in DOMAIN ListAt(spec, "harnesses")}}
Distinct(s) == \A i, j \in DOMAIN s : i # j => s[i] # s[j]
Each(s, Take(_)) == [i \in DOMAIN s |-> Take(s[i])]
In(s) == {s[i] : i \in DOMAIN s}

\* The harness a session gets that names none, or NotYet.
default_harness(spec) ==
    LET hs == ListAt(spec, "harnesses")
        chosen == {i \in DOMAIN hs : Len(hs) = 1 \/ hs[i].default}
    IN IF chosen = {} THEN NotYet ELSE hs[CHOOSE i \in chosen : \A j \in chosen : i <= j]

ValidHarnesses(spec) ==
    LET hs == ListAt(spec, "harnesses")
        defaults == Cardinality({i \in DOMAIN hs : hs[i].default})
    IN /\ hs # <<>>
       /\ \A i \in DOMAIN hs : hs[i].optional => Mediated(hs[i].type)
       /\ defaults <= 1 /\ (Len(hs) > 1 => defaults = 1)
       /\ Distinct(Each(hs, LAMBDA h : h.type))

\* The environment-file variable that supplies a value: `source`, else the name.
Supplies(entry) == IF entry.source = "" THEN entry.name ELSE entry.source
inert_value(secret) == IF secret.placeholder = "" THEN <<"generated", secret.name>> ELSE secret.placeholder

validate_environment(spec) ==
    LET names == Each(ListAt(spec, "environment"), LAMBDA e : e.name)
    IN /\ Distinct(names)
       /\ \A kind \in Kinds(spec) : In(names) \cap ManagedVariables(kind) = {}
       /\ "GIT_USER_NAME" \in In(names) <=> "GIT_USER_EMAIL" \in In(names)

validate_secrets(spec) ==
    LET es == ListAt(spec, "environment") ss == ListAt(spec, "secrets")
    IN /\ Distinct(Each(ss, LAMBDA s : s.name))
       /\ Distinct(Each(ss, inert_value))
       /\ \A s \in In(ss) :
            /\ \A e \in In(es) : s.name # e.name /\ Supplies(s) # Supplies(e)
            /\ s.allowed_hosts # {}
            /\ \A kind \in Kinds(spec) : /\ s.name \notin ManagedSecrets(kind)
                                         /\ s.placeholder \notin ManagedPlaceholders(kind)

\* Mount targets, skill names and access capabilities are declared once.
ValidLists(spec) ==
    /\ \A l \in {"mounts", "skills", "access"} : Distinct(ListAt(spec, l))
    /\ "" \notin In(ListAt(spec, "skills"))

validate(spec) ==
    /\ ValidLists(spec) /\ ValidHarnesses(spec)
    /\ validate_environment(spec) /\ validate_secrets(spec)

\* The strict contract: no unknown fields, a present `null` only where a field is optional.
Fields(v, required, optional) ==
    /\ IsMap(v) /\ required \subseteq DOMAIN v.of
    /\ DOMAIN v.of \subseteq required \cup optional
    /\ \A k \in required : v.of[k] # Null

ValidImage(image) ==
    /\ IsString(Field(image, "type"))
    /\ CASE image.of["type"].of = "build" -> Fields(image, {"type", "context"}, {"target"})
         [] image.of["type"].of = "reference" -> Fields(image, {"type", "reference"}, {})
         [] OTHER -> FALSE

decode(doc) ==
    /\ Fields(doc, {"apiVersion", "kind", "metadata", "spec"}, {})
    /\ doc.of["apiVersion"] = Str(API_VERSION) /\ doc.of["kind"] = Str("Agent")
    /\ Fields(doc.of["metadata"], {"name"}, {}) /\ IsString(doc.of["metadata"].of["name"])
    /\ doc.of["metadata"].of["name"] # Str("")
    /\ Fields(doc.of["spec"], {"image", "harnesses"},
              {"retentionPolicy", "environment", "secrets", "mounts", "skills", "access"})
    /\ ValidImage(doc.of["spec"].of["image"])
    /\ validate(doc.of["spec"])

-----------------------------------------------------------------------------
(* Following the chain *)

ManifestTypeOK ==
    /\ leaf \in Leaves
    /\ Len(chain) \in 0..MaxVariantChain /\ level \in 0..Len(chain)
    /\ outcome \in {"resolving", "resolved", "cycle", "too long", "unreadable", "version",
                    "variant", "extends", "invalid"}
    /\ value.is \in {"nothing", "map"}
    /\ outcome = "resolved" => level = 1 /\ decode(value)

ManifestInit ==
    /\ files \in Directories /\ leaf \in Leaves
    /\ chain = <<>> /\ level = 0 /\ value = NotYet /\ outcome = "resolving"

Descending == outcome = "resolving" /\ value = NotYet
Refused(why) == outcome' = why /\ UNCHANGED <<files, leaf, chain, level, value>>

Document(name) == files[name]
LastVariant == chain[Len(chain)]
KindOf(doc) == Field(doc, "kind")

\* The next manifest: the leaf, then what the last variant extends.
Extended == IF chain = <<>> THEN leaf ELSE Field(Document(LastVariant), "extends").of
IsAtVariant == chain # <<>> /\ KindOf(Document(LastVariant)) = Str("AgentVariant")

validate_variant(name, doc) ==
    /\ name \in Variants
    /\ DOMAIN doc.of \subseteq {"apiVersion", "kind", "extends", "metadata", "spec"}
    /\ IsString(Field(doc, "extends"))
    /\ doc.of["apiVersion"] = Str(API_VERSION)
    /\ IsString(Field(Field(doc, "metadata"), "name"))
    /\ doc.of["metadata"].of["name"] # Str("")
    /\ Field(doc, "spec").is \in {"nothing", "null", "map"}

sibling_base(doc) == doc.of["extends"].of \in Conventional

Seen == In(chain)

TooLong == Len(chain) = MaxVariantChain

\* A manifest is entered: not one of the chain, not past the chain's limit.
Enters ==
    /\ Descending /\ (chain = <<>> \/ IsAtVariant)
    /\ LET name == Extended
       IN IF name \in Seen THEN Refused("cycle")
          ELSE IF TooLong THEN Refused("too long")
          ELSE IF name \notin DOMAIN files \/ ~IsMap(Document(name)) \/ ~IsString(KindOf(Document(name)))
                    \/ ~IsString(Field(Document(name), "apiVersion"))
               THEN Refused("unreadable")
          ELSE LET doc == Document(name)
                   version == Field(Document(leaf), "apiVersion")
               IN IF Field(doc, "apiVersion") # version THEN Refused("version")
                  ELSE CASE KindOf(doc) = Str("Agent") ->
                              IF decode(doc)
                              THEN /\ chain' = Append(chain, name) /\ level' = Len(chain') /\ value' = doc
                                   /\ UNCHANGED <<files, leaf, outcome>>
                              ELSE Refused("invalid")
                         [] KindOf(doc) = Str("AgentVariant") ->
                              IF ~validate_variant(name, doc) THEN Refused("variant")
                              ELSE IF ~sibling_base(doc) THEN Refused("extends")
                              ELSE /\ chain' = Append(chain, name) /\ level' = Len(chain')
                                   /\ UNCHANGED <<files, leaf, value, outcome>>
                         [] OTHER -> Refused("variant")

\* The variant as a patch: without `extends`, as a complete agent.
Overlay(doc) ==
    Map([k \in (DOMAIN doc.of) \ {"extends"} |-> IF k = "kind" THEN Str("Agent") ELSE doc.of[k]])

Expanded(doc) == merge_value(value, Overlay(doc))

\* One level up: the variant that extends what `value` is is merged over it.
Overlays ==
    /\ outcome = "resolving" /\ value # NotYet /\ level > 1
    /\ LET expanded == Expanded(Document(chain[level - 1]))
       IN IF decode(expanded)
          THEN /\ value' = expanded /\ level' = level - 1
               /\ UNCHANGED <<files, leaf, chain, outcome>>
          ELSE Refused("invalid")

Resolves ==
    /\ outcome = "resolving" /\ value # NotYet /\ level = 1
    /\ outcome' = "resolved" /\ UNCHANGED <<files, leaf, chain, level, value>>

ManifestNext == Enters \/ Overlays \/ Resolves

ManifestSpec == ManifestInit /\ [][ManifestNext]_manifestVars

-----------------------------------------------------------------------------
(* Properties *)

RECURSIVE Read(_, _)
Read(v, p) == IF p = <<>> THEN v ELSE Read(Field(v, Head(p)), Tail(p))

LeafPaths ==
    {<<"metadata", "name">>} \cup {<<"spec", "image", f>> : f \in {"type", "context", "target", "reference"}}
    \cup {<<"spec", f>> : f \in {"retentionPolicy", "harnesses", "environment", "secrets"}}

\* What the documents, the leaf's first, say at a path: the first that says
\* anything there, unless one before it removed or replaced what is above.
RECURSIVE Nearest(_, _)
Nearest(docs, p) ==
    LET doc == Head(docs) rest == Tail(docs) said == Read(doc, p)
        Above == {SubSeq(p, 1, n) : n \in 1..Len(p) - 1}
        Replaces(q) ==
            LET there == Read(doc, q) tag == Field(there, "type")
            IN \/ there # NotYet /\ ~IsMap(there)
               \/ /\ IsString(tag) /\ rest # <<>>
                  /\ LET old == Nearest(rest, Append(q, "type")) IN IsString(old) /\ old # tag
    IN IF said # NotYet THEN said
       ELSE IF rest = <<>> \/ \E q \in Above : Replaces(q) THEN NotYet ELSE Nearest(rest, p)

Says(v) == IF v = Null THEN NotYet ELSE v

\* The chain is the way the extends fields lead from the leaf, without a repeat.
ChainIsAPath ==
    /\ Distinct(chain) /\ (chain # <<>> => chain[1] = leaf)
    /\ \A i \in 2..Len(chain) : Field(Document(chain[i - 1]), "extends") = Str(chain[i])

\* A resolved manifest says, at every path, what the nearest manifest of the
\* chain says: no field of a replaced image source or of a removed field is
\* left over, and no field is lost ("Mappings merge recursively, arrays and
\* scalars replace inherited values, and null removes inherited fields").
ReadsTheNearest ==
    outcome = "resolved" =>
        LET docs == Each(chain, Document)
        IN \A p \in LeafPaths : Says(Read(value, p)) = Says(Nearest(docs, p))

\* The document that says at every path what the nearest of the documents says.
Picked(docs) ==
    LET Of(p, f) == Nearest(docs, Append(p, f))
        Fill(p, names) == [f \in {n \in names : Of(p, n) # NotYet} |-> Of(p, f)]
        image == Map(Fill(<<"spec", "image">>, {"type", "context", "target", "reference"}))
        rest == Fill(<<"spec">>, {"retentionPolicy", "harnesses", "environment", "secrets", "unknown"})
    IN Map([apiVersion |-> Str(API_VERSION), kind |-> Str("Agent"),
            metadata |-> Map(Fill(<<"metadata">>, {"name"})),
            spec |-> Map([f \in DOMAIN rest \cup {"image"} |-> IF f = "image" THEN image ELSE rest[f]])])

\* An expansion is only refused when what the nearest manifests say is no valid
\* agent: a variant that changes the kind of image source is not refused for
\* fields of the source it replaced.
RefusedIsInvalid ==
    outcome = "invalid" /\ value # NotYet =>
        ~decode(Picked(Each(SubSeq(chain, level - 1, Len(chain)), Document)))

\* A variant never resolves to an agent of its base's name by leaving its own
\* name out: applying it cannot overwrite the agent of another manifest.
NameIsTheLeafs ==
    outcome = "resolved" => Read(value, <<"metadata", "name">>) = Read(Document(leaf), <<"metadata", "name">>)

\* In the guest every variable has one origin (an environment entry, a secret
\* or a harness), no two secrets stand for each other by having one inert
\* value, and no variable of the environment file is both secret and plain.
VariablesHaveOneOrigin ==
    outcome = "resolved" =>
        LET spec == value.of["spec"]
            es == ListAt(spec, "environment") ss == ListAt(spec, "secrets")
            managed == UNION {ManagedSecrets(kind) : kind \in Kinds(spec)}
            inert == UNION {ManagedPlaceholders(kind) : kind \in Kinds(spec)}
        IN /\ Distinct(Each(es, LAMBDA e : e.name) \o Each(ss, LAMBDA s : s.name))
           /\ ({e.name : e \in In(es)} \cup {s.name : s \in In(ss)}) \cap managed = {}
           /\ Cardinality({inert_value(s) : s \in In(ss)} \cup inert) = Len(ss) + Cardinality(inert)
           /\ {Supplies(e) : e \in In(es)} \cap {Supplies(s) : s \in In(ss)} = {}

\* A session that names no harness has exactly one to get.
DefaultHarnessIsClear ==
    outcome = "resolved" =>
        LET spec == value.of["spec"] hs == ListAt(spec, "harnesses")
        IN /\ default_harness(spec) # NotYet
           /\ \A h \in In(hs) : h.default => h = default_harness(spec)

\* A variant resolves along one path to its base with the nearest value of every field, and is
\* refused exactly when a rule of the manifest is broken (manifest.rs).
ManifestsMeanOneThing ==
    /\ ManifestTypeOK
    /\ ChainIsAPath
    /\ ReadsTheNearest
    /\ RefusedIsInvalid
    /\ NameIsTheLeafs
    /\ VariablesHaveOneOrigin
    /\ DefaultHarnessIsClear

=============================================================================
