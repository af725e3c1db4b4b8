------------------------------- MODULE Documents -------------------------------
(***************************************************************************)
(* The documents clients send, and what the resolvers read of them: gqlgen *)
(* gives the arguments of a root field to its resolver, those of the       *)
(* fields below it the resolvers look for themselves (parseFieldArguments  *)
(* of graphql/resolver.go).                                                *)
(*                                                                         *)
(* A document is [variables, roots]: a value and a kind for each variable, *)
(* and a sequence of selections.  A selection is [name, args, sub].  A     *)
(* value in a document is what the parser makes of it: its text, which for *)
(* a variable is the variable's name, and for an object its children.      *)
(***************************************************************************)
EXTENDS Schema, Integers, FiniteSetsExt, SequencesExt

CONSTANT None  \* no text; no value

-------------------------------------------------------------------------------
(* Values. *)
Lit(x) == [kind |-> "literal", raw |-> x, children |-> <<>>]
Var(x) == [kind |-> "variable", raw |-> x, children |-> <<>>]
Obj(children) == [kind |-> "object", raw |-> None, children |-> children]

Sel(name, args, sub) == [name |-> name, args |-> args, sub |-> sub]

(* What a value means by the GraphQL specification.                        *)
Simple(vars, v) == IF v.kind = "variable" THEN vars[v.raw].value ELSE v.raw

Meant(vars, v) ==
  IF v.kind = "object" THEN [n \in DOMAIN v.children |-> Simple(vars, v.children[n])] ELSE Simple(vars, v)

MeantArgs(vars, sel) == [n \in DOMAIN sel.args |-> Meant(vars, sel.args[n])]

-------------------------------------------------------------------------------
(* What a server accepts: fields there are, with their arguments, and      *)
(* below what is an object, fields of it in some order, down to the        *)
(* deepest of the schema (delegate, bucketInfo, bucketInfoList,            *)
(* bucketInfo, votes).                                                     *)
Depth == 5

InOrder(sels) == Len(sels) \in Nat /\ DOMAIN sels = 1 .. Len(sels)

Fits(type, sel) ==
  /\ sel.name \in DOMAIN FieldsOf[type]
  /\ LET field == FieldsOf[type][sel.name]
     IN  /\ DOMAIN sel.args \subseteq DOMAIN field.args
         /\ \A n \in DOMAIN field.args : field.args[n].optional \/ n \in DOMAIN sel.args
         /\ (field.type = "scalar") = (sel.sub = <<>>)
         /\ InOrder(sel.sub)

(* What is of a kind, and the values that may stand for it: literals and   *)
(* objects that are, and variables of the kind.                            *)
IsOf(kind, x) ==
  /\ kind = "Int" => x \in Int
  /\ kind \in Inputs => DOMAIN x = PartsOf[kind] /\ \A n \in DOMAIN x : x[n] \in Int

FitsSimple(vars, kind, v) ==
  \/ v.kind = "literal" /\ kind \notin Inputs /\ IsOf(kind, v.raw)
  \/ v.kind = "variable" /\ v.raw \in DOMAIN vars /\ vars[v.raw].kind = kind

FitsKind(vars, kind, v) ==
  \/ FitsSimple(vars, kind, v)
  \/ /\ v.kind = "object" /\ v.raw = None /\ kind \in Inputs
     /\ DOMAIN v.children = PartsOf[kind]
     /\ \A n \in DOMAIN v.children : FitsSimple(vars, "Int", v.children[n])

ValuesFit(vars, type, sel) ==
  \A n \in DOMAIN sel.args : FitsKind(vars, FieldsOf[type][sel.name].args[n].kind, sel.args[n])

VariablesFit(vars) == None \notin DOMAIN vars /\ \A x \in DOMAIN vars : IsOf(vars[x].kind, vars[x].value)

(* The selections at a depth, each with the type it is of. *)
Selections(doc) ==
  LET below(p) == {<<FieldsOf[p[1]][p[2].name].type, p[2].sub[i]>> : i \in DOMAIN p[2].sub}
      at[n \in 1 .. Depth] ==
        IF n = 1 THEN {<<"Query", doc.roots[i]>> : i \in DOMAIN doc.roots} ELSE UNION {below(p) : p \in at[n - 1]}
  IN  at

AcceptedDocument(doc) ==
  /\ doc.roots # <<>> /\ VariablesFit(doc.variables)
  /\ \A n \in 1 .. Depth : \A p \in Selections(doc)[n] : Fits(p[1], p[2]) /\ ValuesFit(doc.variables, p[1], p[2])

-------------------------------------------------------------------------------
(* The first selection of a name, the last, and those below all of them.   *)
Named(sels, name) == {i \in DOMAIN sels : sels[i].name = name}

FirstNamed(sels, name) == sels[Min(Named(sels, name))]
LastNamed(sels, name) == sels[Max(Named(sels, name))]

CollectAllFields(sels) == {sels[i].name : i \in DOMAIN sels}

haveField(root, parent) == UNION {CollectAllFields(root.sub[i].sub) : i \in Named(root.sub, parent)}

(* The field below a field that has the pagination.                        *)
SelectedFieldName ==
  [ byDates |-> "actions", byType |-> "actions", byAddressAndType |-> "actions", byAddress |-> "actions",
    byVoter |-> "actions", byBucketIndex |-> "actions", evmTransfersByAddress |-> "evmTransfers",
    tokenHolderAddresses |-> "addresses", bookkeeping |-> "rewardDistribution",
    bucketInfo |-> "bucketInfoList", byDelegate |-> "voterInfoList" ]

ASSUME NoneAssumption == \A n \in DOMAIN SelectedFieldName : None \notin {SelectedFieldName[n], "delegateInfoList"}

NeverPaginated(root, name) == None

Paginated(root, name) ==
  CASE root.name = "hermes2" /\ name = "byVoter" -> "delegateInfoList"
    [] root.name \in {"xrc20", "xrc721"} /\ name # "tokenHolderAddresses" -> None
    [] root.name \in {"account", "chain"} -> None
    [] OTHER -> IF name \in DOMAIN SelectedFieldName THEN SelectedFieldName[name] ELSE None

(* If there are variables, a text that is the name of one of the kind      *)
(* asked for is replaced by its value, a pagination is made of those of    *)
(* its children that are names of variables, and nothing is done about     *)
(* other kinds of arguments.                                               *)
OfKind(vars, x, kind) == x \in DOMAIN vars /\ vars[x].kind = kind

AsWritten(v, kind) ==
  IF kind \in {"Pagination", "EpochRange"} THEN [n \in DOMAIN v.children |-> v.children[n].raw] ELSE v.raw

parseVariables(vars, kind, v) ==
  IF DOMAIN vars = {} \/ kind = "EpochRange" THEN AsWritten(v, kind)
  ELSE IF OfKind(vars, v.raw, kind) THEN vars[v.raw].value
  ELSE IF kind # "Pagination" THEN v.raw
  ELSE LET replaced == {n \in DOMAIN v.children : OfKind(vars, v.children[n].raw, "Int")}
       IN  [n \in replaced |-> vars[v.children[n].raw].value]

(* The arguments of the first selection of that name in the root, and of   *)
(* the last one of its pagination's field below.                           *)
parseFieldArguments(vars, root, name) ==
  LET field == FirstNamed(root.sub, name)
      type == FieldsOf[FieldsOf["Query"][root.name].type][name]
      Parsed(sel, args) == [n \in DOMAIN sel.args |-> parseVariables(vars, args[n].kind, sel.args[n])]
      selected == Paginated(root, name)
      outer == Parsed(field, type.args)
  IN  IF selected = None \/ Named(field.sub, selected) = {} THEN outer
      ELSE Joined(Parsed(LastNamed(field.sub, selected), FieldsOf[type.type][selected].args), outer)

===============================================================================
