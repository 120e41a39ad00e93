---------------------------- MODULE MCOperation ----------------------------
(***************************************************************************)
(* Instances of what is kept and how the program is set up: the ledger,    *)
(* the contracts of its records and the schemas they come from, the        *)
(* projects they are attributed to, what a report makes of them, and the   *)
(* settings of Claude Code.  They touch no state of one another, so a      *)
(* behaviour is of one of them, and the others stay as they begin.         *)
(***************************************************************************)
EXTENDS MCInstances

VARIABLE part

all == <<part, wvars, lvars, cvars, pvars, qvars, gvars>>

-----------------------------------------------------------------------------
\* A part that does not run rests.
WiringRests ==
  /\ files = [s \in Scopes |-> [Empty EXCEPT !.load = "malformed"]]
  /\ config = [parses |-> TRUE, export |-> <<>>]
  /\ activeEvents = {} /\ command = Resting /\ commands = 0 /\ edits = 0 /\ failures = 0
  /\ replaced = {} /\ removed = {}
ContractsRest ==
  current = (CHOOSE d \in Definitions : TRUE) /\ stored = {} /\ rows = {} /\ redefined = 0
ReportsRest == kind = (CHOOSE k \in Kinds : TRUE) /\ entries = <<>> /\ spends = <<>>

OperationInit ==
  /\ part \in {"wiring", "ledger", "contracts", "schemas", "reports", "identity"}
  /\ LInit /\ PInit /\ GInit
  /\ IF part = "wiring" THEN WInit ELSE WiringRests
  /\ IF part = "contracts" THEN CInit ELSE ContractsRest
  /\ IF part = "reports" THEN QInit ELSE ReportsRest

InWiring    == part = "wiring" /\ UNCHANGED <<part, lvars, cvars, pvars, qvars, gvars>>
InLedger    == part = "ledger" /\ UNCHANGED <<part, wvars, cvars, pvars, qvars, gvars>>
InContracts == part = "contracts" /\ UNCHANGED <<part, wvars, lvars, pvars, qvars, gvars>>
InSchemas   == part = "schemas" /\ UNCHANGED <<part, wvars, lvars, cvars, qvars, gvars>>
InReports   == part = "reports" /\ UNCHANGED <<part, wvars, lvars, cvars, pvars, gvars>>
InIdentity  == part = "identity" /\ UNCHANGED <<part, wvars, lvars, cvars, pvars, qvars>>

\* Every action is a disjunct of its own, so that a run reports each.
OperationNext ==
  \/ InWiring /\ \E scope \in {"user", "project"} : InitCommand(scope)
  \/ InWiring /\ \E scope \in {"user", "project"} : RemoveCommand(scope)
  \/ InWiring /\ InsertCommand
  \/ InWiring /\ LoadExport
  \/ InWiring /\ RereadSettings
  \/ InWiring /\ SaveExport
  \/ InWiring /\ WriteSettings
  \/ InWiring /\ CommandFails
  \/ InWiring /\ \E e \in Endpoints : EditEndpoint(e)
  \/ InWiring /\ \E section \in ConfigEdits : EditConfig(TRUE, section)
  \/ InWiring /\ EditConfig(FALSE, <<>>)
  \/ InWiring /\ \E events \in SUBSET Events : Upgrade(events)
  \/ InLedger /\ \E w \in Writers : Connect(w)
  \/ InLedger /\ \E w \in Writers : Look(w)
  \/ InLedger /\ \E w \in Writers : EnableWal(w)
  \/ InLedger /\ \E w \in Writers : BusyTooLong(w)
  \/ InLedger /\ \E w \in Writers : Initialize(w)
  \/ InLedger /\ \E w \in Writers, row \in LedgerRow, strict \in BOOLEAN : Write(w, row, strict)
  \/ InLedger /\ \E w \in Writers : Close(w)
  \/ InLedger /\ \E w \in Writers : KillWriter(w)
  \/ InLedger /\ \E r \in Readers : ReadStore(r)
  \/ InContracts /\ \E p \in Payloads, strict \in BOOLEAN : Record(p, strict)
  \/ InContracts /\ redefined < MaxRedefined /\ \E d \in Definitions : Redefine(d)
  \/ InSchemas /\ \E f \in Files : AddPlugin(f)
  \/ InReports /\ Len(entries) + Len(spends) < MaxEntries /\ \E r \in SomeRecords : AddRecord(r)
  \/ InReports /\ Len(entries) + Len(spends) < MaxEntries /\ \E s \in SomeSpends : AddSession(s)
  \/ InIdentity /\ \E d \in Folders, h \in Heads : GitInit(d, h)
  \/ InIdentity /\ \E d \in Folders, h \in Heads : GitInitBare(d, h)
  \/ InIdentity /\ \E d, s \in Folders, h \in Heads : GitInitSeparate(d, s, h)
  \/ InIdentity /\ \E g \in DOMAIN heads, d \in Folders, h \in Heads : LinkWorktree(g, d, h)
  \/ InIdentity /\ \E g \in DOMAIN heads, d \in Folders, h \in Heads : AddSubmodule(g, d, h)
  \/ InIdentity /\ \E d \in Folders, h \in Heads : CheckOut(d, h)
  \/ InIdentity /\ \E d \in Folders : RemoveFolder(d)
  \/ InIdentity /\ \E d \in Folders : MakeFolder(d)

OperationSpec == OperationInit /\ [][OperationNext]_all
=============================================================================
