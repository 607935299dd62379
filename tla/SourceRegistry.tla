--------------------------- MODULE SourceRegistry ----------------------------
(***************************************************************************)
(* A source's row of source_registry and the functions that make the next   *)
(* row of it: upsertSource and SetSourceStatus (internal/storage), and what  *)
(* the catalog commands decide (internal/providers, catalog.go).            *)
(***************************************************************************)
CONSTANTS
    Tables,     \* upstream tables
    Contains,   \* Contains[t]: the tables whose name contains that of t
    Related,    \* tables whose name or title has a search keyword of the source
    Known,      \* the table that sources.known.yaml gives for the source
    KnownService,   \* and the service that it gives
    None        \* no table, no status

\* The services that have catalogs and tables; no service is "rdata".
Services == {"rdata", "grandlyon"}
Statuses == {"UNRESOLVED", "DISABLED", "OK", "ERROR"}

ASSUME RegistryAssumption ==
    /\ None \notin Tables \cup Statuses /\ Related \subseteq Tables
    /\ Known \in Tables /\ KnownService \in Services
    /\ Contains \in [Tables -> SUBSET Tables]

Maybe == Tables \cup {None}

\* An entry of sources.yaml: hint is its table_name or first exact hint, status
\* one that the user has written there.
Configuration == [enabled : BOOLEAN, service : Services, hint : Maybe, status : Statuses \cup {None}]

\* The service of a row is the one that its configuration has.
Row == [config : Configuration, status : Statuses, table : Maybe]

\* The row that upsertSource makes of a configuration.
Fresh(config) ==
    [config |-> config, table |-> config.hint,
     status |-> IF config.status # None THEN config.status
                ELSE IF config.enabled THEN "UNRESOLVED" ELSE "DISABLED"]

\* upsertSource: an unchanged configuration leaves the row as it is.
Upsert(row, config) == IF row.config = config THEN row ELSE Fresh(config)

\* Mutant: an empty name erases the table.
SetStatusPlain(row, status, table) == [row EXCEPT !.status = status, !.table = table]

\* SetSourceStatus: no name leaves the table; the service stays in any case.
SetStatus(row, status, table) ==
    [row EXCEPT !.status = status, !.table = IF table = None THEN @ ELSE table]

\* searchCatalog and resolveCatalogCandidate: the one listed table that has a
\* hint in its name, or the one listed table that is a candidate at all.
Select(row, listed) ==
    LET hints == {row.config.hint, row.table} \ {None}
        exact == listed \cap UNION {Contains[h] : h \in hints}
        candidates == exact \cup (listed \cap Related)
    IN IF \E t \in Tables : exact = {t} THEN CHOOSE t \in Tables : exact = {t}
       ELSE IF \E t \in Tables : candidates = {t} THEN CHOOSE t \in Tables : candidates = {t}
       ELSE None

\* What a command has found about a row that it has read: the status and the
\* table that it writes, and the service that it asked.
Finding == [status : Statuses, table : Maybe, service : Services]

\* resolveCatalogSources, with the tables that the catalog lists.
Resolved(row, listed) ==
    [status |-> IF ~row.config.enabled THEN "DISABLED"
                ELSE IF Select(row, listed) = None THEN "UNRESOLVED" ELSE "OK",
     table |-> IF row.config.enabled THEN Select(row, listed) ELSE None,
     service |-> row.config.service]

\* The known tables of CatalogScan, in their known service, whatever the row's;
\* answer is what the probe of the table says.
Probed(row, answer) ==
    [status |-> IF row.config.enabled THEN answer ELSE "DISABLED", table |-> Known,
     service |-> KnownService]

\* Mutant: the table is left to the row.
ValidatedInPlace(row, answer) ==
    [status |-> IF row.config.enabled THEN answer ELSE "DISABLED", table |-> None,
     service |-> row.config.service]

\* CatalogValidate probes the row's own table in its own service.
Validated(row, answer) ==
    [status |-> IF row.config.enabled THEN answer ELSE "DISABLED", table |-> row.table,
     service |-> row.config.service]

\* It leaves rows alone that have never been resolved.
Validates(row) == ~row.config.enabled \/ (row.status \in {"OK", "ERROR"} /\ row.table # None)

=============================================================================
