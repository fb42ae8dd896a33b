--------------------------- MODULE ComponentLock ---------------------------
(***************************************************************************)
(* scripts/component_lock.py: components.lock.toml parsed into configured  *)
(* and optional components.  A document is what tomllib returns, with the  *)
(* values the parser tells apart: a raw path is known by the canonical     *)
(* path it resolves to, a raw revision by the object id it names once      *)
(* lowercased.                                                             *)
(***************************************************************************)
EXTENDS Checkouts

CONSTANTS
  Names,        \* component names
  Blank,        \* a name or string that is empty after strip()
  RawPaths,     \* path strings as written
  Resolve,      \* [RawPaths -> Paths \cup {Outside}]: (root / raw).resolve()
  Outside,      \* a path that is not a sibling of the integration root
  RawRevisions, \* revision strings as written
  Lower,        \* [RawRevisions -> Objects \cup {NotHex}]: revision.lower()
  NotHex        \* not forty hexadecimal characters

ASSUME RawAssumption ==
  /\ Blank \notin Names \cup URLs
  /\ Outside \notin Paths
  /\ NotHex \notin Objects
  /\ Resolve \in [RawPaths -> Paths \cup {Outside}]
  /\ Lower \in [RawRevisions -> Objects \cup {NotHex}]

OptionalFields == {"path", "required"}
BaseFields == {"repository", "revision", "path", "required"}
PairedFields == BaseFields \cup {"upstream", "upstream_base"}

\* Fields that a table does not have keep an arbitrary value nobody reads.
RawTable ==
  [ name          : Names \cup {Blank},
    fields        : SUBSET PairedFields,
    required      : {"true", "false", "not_boolean"},
    path          : RawPaths,
    repository    : URLs \cup {Blank},
    upstream      : URLs \cup {Blank},
    revision      : RawRevisions,
    upstream_base : RawRevisions ]

\* "toml" says that the file opens and parses, "keys" that the top level has
\* exactly format_version and components, "version" is the format_version.
Document ==
  [toml : BOOLEAN, keys : BOOLEAN, version : Nat, components : Seq(RawTable)]

-----------------------------------------------------------------------------
ParsedComponent ==
  [ name          : Names,
    kind          : {"configured", "optional"},
    required      : BOOLEAN,
    repository    : URLs \cup {NoUrl},
    upstream      : URLs \cup {NoUrl},
    revision      : Objects \cup {Unborn},
    upstream_base : Objects \cup {Unborn},
    path          : Paths ]

IsSibling(raw) == Resolve[raw] # Outside
IsRevision(raw) == Lower[raw] # NotHex

AcceptsOptional(table) ==
  /\ table.fields = OptionalFields
  /\ table.required = "false"
  /\ IsSibling(table.path)

AcceptsConfigured(table) ==
  /\ table.fields \in {BaseFields, PairedFields}
  /\ table.repository # Blank
  /\ table.required \in {"true", "false"}
  /\ IsRevision(table.revision)
  /\ IsSibling(table.path)
  /\ table.fields = PairedFields =>
       table.upstream # Blank /\ IsRevision(table.upstream_base)

AcceptsTable(table) ==
  /\ table.name # Blank
  /\ AcceptsOptional(table) \/ AcceptsConfigured(table)

ParseTable(table) ==
  IF table.fields = OptionalFields
  THEN [ name |-> table.name, kind |-> "optional", required |-> FALSE,
         repository |-> NoUrl, upstream |-> NoUrl, revision |-> Unborn,
         upstream_base |-> Unborn, path |-> Resolve[table.path] ]
  ELSE [ name |-> table.name, kind |-> "configured",
         required |-> table.required = "true",
         repository |-> table.repository,
         upstream |-> IF table.fields = PairedFields
                      THEN table.upstream ELSE NoUrl,
         revision |-> Lower[table.revision],
         upstream_base |-> IF table.fields = PairedFields
                           THEN Lower[table.upstream_base] ELSE Unborn,
         path |-> Resolve[table.path] ]

\* Two tables must not resolve to one canonical path.
UniquePaths(tables) ==
  \A i, j \in DOMAIN tables :
    i # j => Resolve[tables[i].path] # Resolve[tables[j].path]

\* load_component_lock raises ComponentLockError exactly when this is false.
Loads(document) ==
  /\ document.toml
  /\ document.keys
  /\ document.version = 1
  /\ \A i \in DOMAIN document.components : AcceptsTable(document.components[i])
  /\ UniquePaths(document.components)

\* The components of a document that loads, in the order of the file.
Parse(document) ==
  [i \in DOMAIN document.components |-> ParseTable(document.components[i])]

IsConfigured(component) == component.kind = "configured"
=============================================================================
