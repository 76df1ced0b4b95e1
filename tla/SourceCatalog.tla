------------------------------ MODULE SourceCatalog ------------------------------
(***************************************************************************)
(* The catalog of sources (source_catalog.cpp): a list of bindings that    *)
(* registrations only append to.  Nothing refuses a name that is bound     *)
(* already.  The backends hold a reference to it, so a registration counts *)
(* for every execution after it.                                           *)
(***************************************************************************)
EXTENDS Sequences, FiniteSetsExt

VARIABLE catalog

SourceKind == {"Csv", "SQLite"}

\* physicalName is the name inside the location; a CSV file has none of its own.
Binding(kind, name, location, physicalName, schema) ==
  [kind |-> kind, name |-> name, location |-> location,
   physicalName |-> physicalName, schema |-> schema]

AddCsv(name, location, schema) ==
  catalog' = Append(catalog, Binding("Csv", name, location, name, schema))

AddSQLite(name, location, tableName, schema) ==
  catalog' = Append(catalog, Binding("SQLite", name, location, tableName, schema))

BindingsOf(bindings, name, kind) ==
  {i \in DOMAIN bindings : bindings[i].name = name /\ bindings[i].kind = kind}

\* Mutated form of FindIn: a later registration replaces an earlier one.
FindLast(bindings, name, kind) ==
  LET found == BindingsOf(bindings, name, kind)
  IN  IF found = {} THEN <<>> ELSE << bindings[Max(found)] >>

\* <<>> or the first binding of the name and kind: find's pointer.
FindIn(bindings, name, kind) ==
  LET found == BindingsOf(bindings, name, kind)
  IN  IF found = {} THEN <<>> ELSE << bindings[Min(found)] >>

Find(name, kind) == FindIn(catalog, name, kind)
=============================================================================
