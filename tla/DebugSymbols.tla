---------------------------- MODULE DebugSymbols ----------------------------
(***************************************************************************)
(* The debugger's symbol table (debugger.c: dbgReadDbgSyms, and the        *)
(* searches of dbgAddBp and dbgRemoveBreakpoint). dbgInit reads the ld65   *)
(* debug files one after the other before the simulation starts. A line is *)
(* reduced to what decides about it: is it a label's, is the name all      *)
(* capitals, name and value. A file that cannot be opened is an empty one. *)
(***************************************************************************)
EXTENDS Naturals, Sequences

CONSTANTS
  SymFiles,    \* the files' lines: [label, caps, name, val]
  FirstSymCap, \* 64: the table's first capacity
  AddrSpace    \* 2^16

ASSUME DebugSymbolsAssumption ==
  /\ FirstSymCap \in Nat \ {0} /\ AddrSpace \in Nat \ {0}
  /\ SymFiles \in Seq(Seq([label : BOOLEAN, caps : BOOLEAN, name : STRING, val : Nat]))

VARIABLES
  symtab,      \* dbgSymbols[0..dbgNofSyms-1]
  symCapacity, \* dbgSymCapacity, 0 while dbgSymbols is NULL
  reading,     \* the file and line read next
  truncated    \* has a malloc or a realloc failed? (only recorded)

symVars == <<symtab, symCapacity, reading, truncated>>

SymInit ==
  /\ symtab = <<>> /\ symCapacity = 0
  /\ reading = [file |-> 1, line |-> 1] /\ truncated = FALSE

Loading  == reading.file <= Len(SymFiles)
AtEnd    == reading.line > Len(SymFiles[reading.file])
Line     == SymFiles[reading.file][reading.line]
NextLine == reading' = [reading EXCEPT !.line = @ + 1]
NextFile == reading' = [file |-> reading.file + 1, line |-> 1]

\* type=lab lines whose name is not all capitals (those are taken for
\* hardware equates); both tests come before the table is touched.
Wanted(l) == l.label /\ ~ l.caps

NoTable == symCapacity = 0

\* The first file that can be opened brings the table; a file whose malloc
\* fails is closed unread, and the next one tries again.
OpenTable ==
  /\ Loading /\ NoTable
  /\ symCapacity' = FirstSymCap
  /\ UNCHANGED <<symtab, reading, truncated>>
OpenTableFails ==
  /\ Loading /\ NoTable
  /\ NextFile
  /\ truncated' = TRUE
  /\ UNCHANGED <<symtab, symCapacity>>

SkipLine ==
  /\ Loading /\ ~ NoTable /\ ~ AtEnd /\ ~ Wanted(Line)
  /\ NextLine
  /\ UNCHANGED <<symtab, symCapacity, truncated>>

Capacity == IF Len(symtab) >= symCapacity THEN 2 * symCapacity ELSE symCapacity

AddSymbol ==
  /\ Loading /\ ~ NoTable /\ ~ AtEnd /\ Wanted(Line)
  /\ symCapacity' = Capacity
  /\ symtab' = Append(symtab, [symbolname |-> Line.name, addr |-> Line.val % AddrSpace])
  /\ NextLine
  /\ truncated' = truncated

\* realloc fails: the rest of this file is given up.
GiveUpFile ==
  /\ Loading /\ ~ NoTable /\ ~ AtEnd /\ Wanted(Line) /\ Len(symtab) >= symCapacity
  /\ NextFile
  /\ truncated' = TRUE
  /\ UNCHANGED <<symtab, symCapacity>>

\* A file that cannot be opened ends before there need be a table.
EndFile ==
  /\ Loading /\ AtEnd
  /\ NextFile
  /\ UNCHANGED <<symtab, symCapacity, truncated>>

ReadStep == OpenTable \/ OpenTableFails \/ SkipLine \/ AddSymbol \/ GiveUpFile \/ EndFile

\* The search of `b` and `rb`: from the start of the table.
Matches(name) == {i \in DOMAIN symtab : symtab[i].symbolname = name}
LastMatch(name) == CHOOSE i \in Matches(name) : \A j \in Matches(name) : j <= i \* seeded fault
FirstMatch(name) == CHOOSE i \in Matches(name) : \A j \in Matches(name) : i <= j
Knows(name)   == Matches(name) # {}
Resolve(name) == symtab[FirstMatch(name)].addr

----------------------------------------------------------------------------

SymTypeOK ==
  /\ symtab \in Seq([symbolname : STRING, addr : 0..(AddrSpace - 1)])
  /\ symCapacity \in Nat /\ truncated \in BOOLEAN
  /\ reading \in [file : 1..(Len(SymFiles) + 1), line : Nat \ {0}]

\* Line l of file f defines a name that no label before it has, file after
\* file and line after line.
FirstOfItsName(f, l) ==
  /\ Wanted(SymFiles[f][l])
  /\ \A g \in 1..f : \A k \in DOMAIN SymFiles[g] :
       (g < f \/ k < l) /\ Wanted(SymFiles[g][k]) => SymFiles[g][k].name # SymFiles[f][l].name

\* The table stays inside its array across files and, unless memory ran out,
\* `b` and `rb` find under every name the first file's first label of that
\* name ("b uses the first file loaded") and no equate.
SymbolTableSound ==
  /\ Len(symtab) <= symCapacity
  /\ ~ Loading /\ ~ truncated =>
       /\ \A i \in DOMAIN symtab : \E f \in DOMAIN SymFiles : \E l \in DOMAIN SymFiles[f] :
            Wanted(SymFiles[f][l]) /\ SymFiles[f][l].name = symtab[i].symbolname
       /\ \A f \in DOMAIN SymFiles : \A l \in DOMAIN SymFiles[f] :
            FirstOfItsName(f, l) =>
              /\ Knows(SymFiles[f][l].name)
              /\ Resolve(SymFiles[f][l].name) = SymFiles[f][l].val % AddrSpace
=============================================================================
