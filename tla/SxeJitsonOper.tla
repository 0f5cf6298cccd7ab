---------------------------- MODULE SxeJitsonOper ---------------------------
(***************************************************************************)
(* lib-sxe-jitson: operations on values, registered by name and dispatched *)
(* on the type of an operand.  Operations are numbered from 1 and types    *)
(* from 0.  A function is the operation and type that it is meant for, or  *)
(* None; Garbage is memory that realloc has not initialised.               *)
(***************************************************************************)
EXTENDS Integers, Sequences, FiniteSets

CONSTANTS OperTypes,       \* the types of values
          MaxOpers         \* bound: operations

ASSUME OperTypesAssumption == OperTypes \in SUBSET Nat /\ MaxOpers \in Nat

VARIABLE registry

OperKinds == {"unary", "binary", "binary_right"}
None == <<>>
Garbage == <<"garbage">>

\* num_types is the length of tables; the history given holds what was registered.
NoCall == [op |-> 0, left |-> 0, right |-> 0, result |-> None]
OperInit == registry = [opers |-> <<>>, tables |-> <<>>, dangling |-> FALSE, given |-> {}, call |-> NoCall]

num_opers == Len(registry.opers)
num_types == Len(registry.tables)

\* A name is only registered once: the caller's duty.
sxe_jitson_oper_register(kind, default) ==
    /\ num_opers < MaxOpers
    /\ registry' = [registry EXCEPT !.opers = Append(@, [kind |-> kind, def_func |-> default])]

\* Growing a table: the entries below the new one are initialised.
Grown(table, n, fill) == table \o [i \in 1 .. n - Len(table) |-> fill]

\* A mutant of InterveningOpers that leaves them as realloc does.
InterveningOpersGarbage(table, op) == IF op > Len(table) THEN Grown(table, op, Garbage) ELSE table

InterveningOpers(table, op) == IF op > Len(table) THEN Grown(table, op, None) ELSE table

\* Types are 0 based in the code and 1 based here.
sxe_jitson_oper_add_to_type(op, type) ==
    /\ op <= num_opers /\ ~registry.dangling
    /\ LET grown == IF type >= num_types THEN Grown(registry.tables, type + 1, <<>>) ELSE registry.tables IN
       registry' = [registry EXCEPT !.tables = [grown EXCEPT ![type + 1] = [InterveningOpers(@, op) EXCEPT ![op] = <<op, type>>]],
                                    !.given = @ \cup {<<op, type>>}, !.call = NoCall]

\* Either the function of the type, or the default, or none (EOPNOTSUPP).
Dispatch(op, type) ==
    IF type < num_types /\ op <= Len(registry.tables[type + 1]) /\ registry.tables[type + 1][op] # None
    THEN registry.tables[type + 1][op]
    ELSE IF registry.opers[op].def_func THEN <<op>> ELSE None

Called(op, left, right, result) == registry' = [registry EXCEPT !.call = [op |-> op, left |-> left, right |-> right, result |-> result]]

sxe_jitson_oper_apply_unary(op, arg) ==
    /\ op <= num_opers /\ registry.opers[op].kind = "unary" /\ ~registry.dangling
    /\ Called(op, arg, arg, Dispatch(op, arg))

sxe_jitson_oper_apply_binary(left, op, right) ==
    /\ op <= num_opers /\ registry.opers[op].kind # "unary" /\ ~registry.dangling
    /\ Called(op, left, right, Dispatch(op, IF registry.opers[op].kind = "binary_right" THEN right ELSE left))

\* The tables are freed; their number and the pointer to them are not reset.
sxe_jitson_oper_fini ==
    /\ num_opers > 0 /\ ~registry.dangling
    /\ registry' = [registry EXCEPT !.opers = <<>>, !.dangling = num_types > 0, !.given = {}, !.call = NoCall]

OperNext ==
    \/ \E kind \in OperKinds, default \in BOOLEAN : sxe_jitson_oper_register(kind, default)
    \/ \E op \in 1 .. MaxOpers, type \in OperTypes : sxe_jitson_oper_add_to_type(op, type)
    \/ \E op \in 1 .. MaxOpers, arg \in OperTypes : sxe_jitson_oper_apply_unary(op, arg)
    \/ \E op \in 1 .. MaxOpers, left, right \in OperTypes : sxe_jitson_oper_apply_binary(left, op, right)
    \/ sxe_jitson_oper_fini

OperSpec == OperInit /\ [][OperNext]_registry

-----------------------------------------------------------------------------
\* An operation calls the function that was given for it and the type of the
\* operand that selects it, else its default, else nothing: never another
\* operation's function, or memory that was never set, in whatever order the
\* operations and types were registered.
DispatchRight ==
    LET c == registry.call
        o == registry.opers[c.op]
        type == IF o.kind = "binary_right" THEN c.right ELSE c.left IN
    c.op # 0 => \/ c.result = <<c.op, type>> /\ <<c.op, type>> \in registry.given
                \/ <<c.op, type>> \notin registry.given /\ c.result = (IF o.def_func THEN <<c.op>> ELSE None)
=============================================================================
