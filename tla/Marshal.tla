-------------------------------- MODULE Marshal --------------------------------
(***************************************************************************)
(* What a call carries: the client's input arguments in the EXECUTE        *)
(* message, the memory the server gives to the skeleton, the output        *)
(* arguments in the reply and what the client does with them.              *)
(*                                                                         *)
(* A value is a token, and pushes as many bytes as its type has; popping   *)
(* anything but the bytes of one value of that size gives Garbage.  The    *)
(* byte order of the numbers is left out, the order of the bytes is not.   *)
(*                                                                         *)
(* Client and server marshal with their own argument types.  operator<     *)
(* takes two functions for the same when all but the lengths of their      *)
(* arrays agree.                                                           *)
(***************************************************************************)
EXTENDS Integers, SequencesExt

CONSTANTS Width,   \* bound: the size of each data type, a function
          CarSize, \* bound: the values of the 16 bits with the cardinality (65536)
          MaxArgs  \* bound: the number of arguments

VARIABLES
  client_types, server_types, \* the argument types at either end
  stage,   \* how far the call has come
  args,    \* the client's memory
  data,    \* the stream under way
  memory,  \* what the server gives to the skeleton
  retval   \* what the reply says of the call

marshalVars == <<client_types, server_types, stage, args, data, memory, retval>>

ASSUME MarshalAssumption ==
  /\ \A type \in DOMAIN Width : Width[type] \in Nat \ {0}
  /\ CarSize \in Nat \ {0}
  /\ MaxArgs \in Nat

(* An element of argTypes: low stands for its lower 16 bits. *)
ArgType == [type : DOMAIN Width, input : BOOLEAN, output : BOOLEAN, low : 0 .. CarSize - 1]

is_arg_scalar(arg) == arg.low = 0

get_arg_car(arg) == IF arg.low = 0 THEN 1 ELSE arg.low

(* operator<, by to_signiture. *)
SameSignature(f, g) ==
  /\ Len(f) = Len(g)
  /\ \A i \in DOMAIN f :
       /\ f[i].type = g[i].type
       /\ f[i].input = g[i].input /\ f[i].output = g[i].output
       /\ is_arg_scalar(f[i]) <=> is_arg_scalar(g[i])

Inputs(f) == {i \in DOMAIN f : f[i].input}

Outputs(f) == {i \in DOMAIN f : f[i].output}

-----------------------------------------------------------------------------
(* Values: element j of argument i, as the client gives it or the skeleton  *)
(* leaves it.                                                               *)

Given(i, j) == <<"given", i, j>>
Result(i, j) == <<"result", i, j>>
Zero == <<"zero", 0, 0>>
Garbage == <<"garbage", 0, 0>>

Memory(f, Value(_, _)) == [i \in DOMAIN f |-> [j \in 1 .. get_arg_car(f[i]) |-> Value(i, j)]]

(* push_i8 .. push_f64 *)
Push(value, width) == [k \in 1 .. width |-> <<value, k>>]

(* pop_i8 .. pop_f64, from the byte after the first "at" ones. *)
Pop(ss, at, width) ==
  IF at + width =< Len(ss) /\ SubSeq(ss, at + 1, at + width) = Push(ss[at + 1][1], width)
    THEN ss[at + 1][1]
    ELSE Garbage

(* The chosen arguments, one after the other. *)
PushAll(f, chosen, mem) ==
  FlattenSeq([i \in DOMAIN f |->
    IF i \in chosen
      THEN FlattenSeq([j \in 1 .. get_arg_car(f[i]) |-> Push(mem[i][j], Width[f[i].type])])
      ELSE <<>>])

(* Where argument i begins. *)
Offset(f, chosen, i) ==
  LET sum[n \in 0 .. Len(f)] ==
        IF n = 0 THEN 0
        ELSE sum[n - 1] + (IF n \in chosen THEN get_arg_car(f[n]) * Width[f[n].type] ELSE 0)
  IN sum[i - 1]

(* The chosen arguments are popped one after the other, the others kept.    *)
PopAll(f, chosen, ss, mem) ==
  [i \in DOMAIN f |->
    IF i \in chosen
      THEN LET width == Width[f[i].type] IN
           [j \in 1 .. get_arg_car(f[i]) |-> Pop(ss, Offset(f, chosen, i) + (j - 1) * width, width)]
      ELSE mem[i]]

-----------------------------------------------------------------------------
(* The four stages of a call. *)

MarshalInit ==
  /\ client_types = <<>> /\ server_types = <<>>
  /\ stage = "none"
  /\ args = <<>>
  /\ data = <<>>
  /\ memory = <<>>
  /\ retval = 0

(* mutant: outputs are sent as well *)
SendsEverything(f) == DOMAIN f

Sent(f) == Inputs(f)

(* Postman::send_execute, after is_force_queue_task and the function. *)
MarshalCall(f, g) ==
  /\ stage' = "sent"
  /\ client_types' = f /\ server_types' = g
  /\ args' = Memory(f, Given)
  /\ data' = PushAll(f, Sent(f), Memory(f, Given))
  /\ UNCHANGED <<memory, retval>>

(* Tasks::Task::run, up to the call of the skeleton: memory for all         *)
(* arguments, inputs popped, the rest zero.                                 *)
UnmarshalCall ==
  /\ stage = "sent"
  /\ stage' = "running"
  /\ memory' = PopAll(server_types, Inputs(server_types), data,
                      Memory(server_types, LAMBDA i, j : Zero))
  /\ UNCHANGED <<client_types, server_types, args, data, retval>>

(* mutant: what is only input is sent back as well *)
RepliesEverything(g) == DOMAIN g

Replied(g) == Outputs(g)

(* The skeleton, which may write to all of the memory it is given, and      *)
(* Postman::reply_execute, after the log.                                   *)
MarshalReply(ret) ==
  /\ stage = "running"
  /\ stage' = "replied"
  /\ memory' = Memory(server_types, Result)
  /\ retval' = ret
  /\ data' = IF ret >= 0
               THEN PushAll(server_types, Replied(server_types), Memory(server_types, Result))
               ELSE <<>>
  /\ UNCHANGED <<client_types, server_types, args>>

(* mutant: the outputs are popped whatever the server says *)
Regardless(ret) == TRUE

Successful(ret) == ret >= 0

(* Global::rpc_call_helper, after the log of the reply. *)
UnmarshalReply ==
  /\ stage = "replied"
  /\ stage' = "returned"
  /\ args' = IF Successful(retval) THEN PopAll(client_types, Outputs(client_types), data, args) ELSE args
  /\ UNCHANGED <<client_types, server_types, data, memory, retval>>

Pair == {fg \in ArgType \X ArgType : SameSignature(<<fg[1]>>, <<fg[2]>>)}

(* A client's f and a server's g of the same signature. *)
MarshalNext ==
  \/ /\ stage = "none"
     /\ \E n \in 0 .. MaxArgs : \E pairs \in [1 .. n -> Pair] :
          MarshalCall([i \in 1 .. n |-> pairs[i][1]], [i \in 1 .. n |-> pairs[i][2]])
  \/ UnmarshalCall
  \/ \E ret \in {-1, 0} : MarshalReply(ret)
  \/ UnmarshalReply

MarshalSpec == MarshalInit /\ [][MarshalNext]_marshalVars

-----------------------------------------------------------------------------
(* Properties. *)

(* The arguments before i in the stream have the same length on both sides. *)
Aligned(chosen, i) ==
  \A h \in chosen : h < i => get_arg_car(client_types[h]) = get_arg_car(server_types[h])

Shared(i) == (1 .. get_arg_car(client_types[i])) \cap (1 .. get_arg_car(server_types[i]))

(* The skeleton finds the client's inputs at the positions the client gave  *)
(* them, as many as both sides know of, whatever the lengths behind them,   *)
(* and zeros in the outputs ("the length ... doesn't have to be 100",       *)
(* test/server.c 37).  An array before it whose length differs breaks this, *)
(* and Aligned excludes it.                                                 *)
InputsArrive ==
  stage = "running" =>
    \A i \in DOMAIN client_types :
      IF client_types[i].input
        THEN Aligned(Inputs(client_types), i) => \A j \in Shared(i) : memory[i][j] = Given(i, j)
        ELSE \A j \in DOMAIN memory[i] : memory[i][j] = Zero

(* The outputs of a call that succeeds "overwrite the corresponding items"  *)
(* (protocol.tex 78) of the client's arguments, as many as both sides know  *)
(* of and with the same restriction.                                        *)
OutputsArrive ==
  stage = "returned" /\ retval >= 0 =>
    \A i \in Outputs(client_types) :
      Aligned(Outputs(client_types), i) => \A j \in Shared(i) : args[i][j] = Result(i, j)

(* What is not an output stays as the client gave it, and so does           *)
(* everything when the call fails, however the lengths differ               *)
(* (rpc_call_helper).                                                       *)
ArgumentsKept ==
  stage = "returned" =>
    \A i \in DOMAIN client_types :
      retval < 0 \/ ~ client_types[i].output =>
        args[i] = [j \in 1 .. get_arg_car(client_types[i]) |-> Given(i, j)]

=============================================================================
