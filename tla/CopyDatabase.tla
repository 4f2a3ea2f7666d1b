--------------------------- MODULE CopyDatabase ---------------------------
(***************************************************************************)
(* tollbooth copy-db (copydb.py, cli.py): the tables are read one after    *)
(* the other, each as it is when its SELECT starts, and written to another *)
(* database in one transaction.  Tollbooth may still serve the source, or  *)
(* already the target.  Four of the ten tables stand for all: a referenced *)
(* table, one that refers to it, and two that stand alone.                 *)
(***************************************************************************)
EXTENDS Ledger, Sequences, FiniteSetsExt

CONSTANTS
    BatchSize,  \* batch_size
    Intruders   \* credentials that may be in the target at first, or be added there meanwhile

VARIABLES
    copier,    \* copy_database
    target,    \* per table, the rows committed there
    intruded   \* of those rows, the ones that are not the copier's

copyVars == <<copier, target, intruded>>

ASSUME CopyAssumption ==
    /\ BatchSize \in Nat \ {0}
    /\ Intruders \subseteq CredentialRows

\* metadata.sorted_tables: a table after those it refers to.
SortedTables == <<"provider_credentials", "virtual_keys", "ledger", "audit_log">>
Tables == {SortedTables[i] : i \in DOMAIN SortedTables}

Source ==
    [t \in Tables |->
        CASE t = "provider_credentials" -> provider_credentials
          [] t = "virtual_keys" -> virtual_keys
          [] t = "ledger" -> ledger
          [] t = "audit_log" -> audit_log]

NoRows == [t \in Tables |-> {}]

\* What the constraints of a table refuse: a taken primary key or unique name, a foreign key
\* that leads nowhere.
Refused(t, held, rows) ==
    \/ \E r \in rows, s \in held[t] : r.id = s.id
    \/ t = "provider_credentials" /\ \E r \in rows, s \in held[t] : r.name = s.name
    \/ /\ t = "virtual_keys"
       /\ \E r \in rows : \A c \in held["provider_credentials"] : c.id # r.credential

-----------------------------------------------------------------------------
CopyInit ==
    /\ copier = [pc |-> "idle"]
    /\ intruded \in {{}} \cup {{c} : c \in Intruders}
    /\ target = [NoRows EXCEPT !["provider_credentials"] = intruded]

Fail(why) == [copier EXCEPT !.pc = "failed", !.why = why, !.rows = {}, !.staged = NoRows]

\* The source must be at the newest migration; the target is migrated.  `base` and `found`
\* remember what there was to copy, and to find, at first.
StartCopy ==
    /\ copier.pc = "idle"
    /\ \E version \in {"head", "older"} :
        copier' = [pc |-> IF version = "head" THEN "checking" ELSE "failed",
                   why |-> IF version = "head" THEN "none" ELSE "version",
                   at |-> 1, rows |-> {}, staged |-> NoRows, base |-> Source, found |-> intruded]
    /\ UNCHANGED <<target, intruded>>

\* One table of the target is counted.
CheckEmpty ==
    /\ copier.pc = "checking"
    /\ copier' =
        IF target[SortedTables[copier.at]] # {} THEN Fail("not empty")
        ELSE IF copier.at < Len(SortedTables) THEN [copier EXCEPT !.at = @ + 1]
        ELSE [copier EXCEPT !.pc = "reading", !.at = 1]
    /\ UNCHANGED <<target, intruded>>

\* The SELECT of the next table starts.
Select ==
    /\ copier.pc = "reading"
    /\ copier' = [copier EXCEPT !.pc = "writing", !.rows = Source[SortedTables[copier.at]]]
    /\ UNCHANGED <<target, intruded>>

Held == [t \in Tables |-> target[t] \cup IF copier.pc = "idle" THEN {} ELSE copier.staged[t]]

\* A batch of it is inserted.
Insert ==
    /\ copier.pc = "writing" /\ copier.rows # {}
    /\ LET t == SortedTables[copier.at]
           size == Cardinality(copier.rows)
       IN  \E batch \in kSubset(IF size < BatchSize THEN size ELSE BatchSize, copier.rows) :
              copier' = IF Refused(t, Held, batch) THEN Fail("conflict")
                        ELSE [copier EXCEPT !.rows = @ \ batch, !.staged[t] = @ \cup batch]
    /\ UNCHANGED <<target, intruded>>

\* Mutant of EndTable: every table is committed on its own.
EndTableCommitted ==
    /\ copier.pc = "writing" /\ copier.rows = {}
    /\ target' = Held
    /\ copier' = [copier EXCEPT
                    !.pc = IF copier.at < Len(SortedTables) THEN "reading" ELSE "copied",
                    !.at = IF @ < Len(SortedTables) THEN @ + 1 ELSE @,
                    !.staged = NoRows]
    /\ UNCHANGED intruded

\* The table is finished; after the last one the transaction commits.
EndTable ==
    /\ copier.pc = "writing" /\ copier.rows = {}
    /\ IF copier.at < Len(SortedTables)
       THEN /\ copier' = [copier EXCEPT !.pc = "reading", !.at = @ + 1]
            /\ UNCHANGED target
       ELSE /\ copier' = [copier EXCEPT !.pc = "copied", !.staged = NoRows]
            /\ target' = Held
    /\ UNCHANGED intruded

\* A statement fails, or the process dies: the transaction is rolled back.
Break ==
    /\ copier.pc \in {"checking", "reading", "writing"}
    /\ copier' = Fail("broken")
    /\ UNCHANGED <<target, intruded>>

\* Someone writes to the target.  An insert that meets rows of an open transaction waits.
Intrude ==
    /\ copier.pc # "idle" /\ intruded = {}
    /\ \E c \in Intruders :
        /\ ~Refused("provider_credentials", Held, {c})
        /\ intruded' = {c}
        /\ target' = [target EXCEPT !["provider_credentials"] = @ \cup {c}]
    /\ UNCHANGED copier

Copy == StartCopy \/ CheckEmpty \/ Select \/ Insert \/ EndTable \/ Break \/ Intrude

CopyTypeOK ==
    /\ copier.pc \in {"idle", "checking", "reading", "writing", "copied", "failed"}
    /\ copier.pc # "idle" => copier.at \in DOMAIN SortedTables
    /\ intruded \subseteq Intruders
    /\ target["ledger"] \subseteq LedgerRows

-----------------------------------------------------------------------------
\* "a failure leaves the target empty": short of its end a copy leaves nothing in the target.
\* At its end the target holds every row the source had when it began, none the source never
\* had, and no key without its credential, even if Tollbooth was not stopped first; and the
\* constraints only stop a copy whose source or target was written to meanwhile.
CopyWhole ==
    /\ copier.pc # "copied" => target = [NoRows EXCEPT !["provider_credentials"] = intruded]
    /\ copier.pc = "copied" =>
          /\ \A t \in Tables : copier.base[t] \subseteq target[t]
          /\ \A t \in Tables \ {"provider_credentials"} : target[t] \subseteq Source[t]
          /\ target["provider_credentials"] \subseteq provider_credentials \cup intruded
          /\ \A k \in target["virtual_keys"] :
                \E c \in target["provider_credentials"] : c.id = k.credential
    /\ copier.pc = "failed" /\ copier.why = "conflict" =>
          Source # copier.base \/ intruded # copier.found
=============================================================================
