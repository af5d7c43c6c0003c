----------------------------- MODULE MCCrudActor -----------------------------
(***************************************************************************)
(* Workloads of a CrudActor: a state machine in two phases, transactions   *)
(* by hand and by withTransaction, every operation, and configurations     *)
(* that are refused.                                                       *)
(***************************************************************************)
EXTENDS CrudActor

Op(n) == [name |-> n, onSession |-> "unset", throwOnFailure |-> "unset", recordFailure |-> "unset",
          limited |-> FALSE, inner |-> <<>>]
With(n, inner) == [Op(n) EXCEPT !.inner = inner]
Session(op) == [op EXCEPT !.onSession = "true"]
NoSession(op) == [op EXCEPT !.onSession = "false"]
Swallowed(op) == [op EXCEPT !.throwOnFailure = "false"]
Recorded(op) == [op EXCEPT !.recordFailure = "true"]

Base == [nop |-> FALSE, database |-> TRUE, collection |-> TRUE, collectionCount |-> FALSE,
         throwOnFailure |-> "unset", recordFailure |-> "unset", continue |-> "unset",
         skipFirstOperations |-> "unset", operations |-> <<>>, states |-> <<>>,
         initialStates |-> <<>>]
NopPhase == [Base EXCEPT !.nop = TRUE]
Phase(s) == [Base EXCEPT !.operations = s]

State(s, t) == [operations |-> s, transitions |-> t]
To(n, w) == [to |-> n, weight |-> w]
Machines == << State(<<Recorded(Op("insertOne"))>>, <<To(2, 1), To(3, 1), To(4, 0)>>),
               State(<<Recorded(Op("updateOne"))>>, <<To(3, 2)>>),
               State(<<Recorded(Op("deleteOne"))>>, <<To(3, 1), To(1, 1)>>),
               State(<<Op("find")>>, <<To(2, 1)>>) >>
StatesPhase == [Base EXCEPT !.states = Machines, !.initialStates = <<1, 1, 0, 0>>]
ContinuePhase == [StatesPhase EXCEPT !.continue = "true", !.skipFirstOperations = "true",
                                     !.initialStates = <<>>]

Machine2 == <<NopPhase, StatesPhase, ContinuePhase>>

ByHand == << Phase(<< Swallowed(Op("startTransaction")), Session(Swallowed(Op("insertOne"))),
                      Recorded(Op("deleteMany")), Recorded(Op("commitTransaction")) >>) >>
Managed == << Phase(<< Swallowed(With("withTransaction",
                         <<Swallowed(Op("insertOne")), NoSession(Recorded(Op("insertOne"))),
                           Swallowed(Op("findOneAndDelete"))>>)) >>) >>
Throwing == << [Phase(<<With("bulkWrite", <<Op("insertOne"), Op("deleteMany"), Op("insertOne")>>),
                        With("withTransaction", <<Op("insertOne"), Recorded(Op("updateOne"))>>)>>) EXCEPT !.recordFailure = "false"] >>
Whole == << Phase(<< Swallowed(With("withTransaction",
                       <<Swallowed(Op("insertOne")), Recorded(With("insertMany", <<Op("insertOne"), Op("insertOne")>>)),
                         Swallowed(Op("deleteOne"))>>)) >>) >>
Within == << Phase(<< Swallowed(Op("startTransaction")),
                      Recorded(With("withTransaction", <<NoSession(With("insertMany", <<Op("insertOne"), Op("insertOne")>>))>>)),
                      Op("commitTransaction") >>) >>
Lax(s) == [Phase(s) EXCEPT !.throwOnFailure = "false"]
Reading == << Lax(<<With("insertMany", <<Op("insertOne"), Op("insertOne")>>), Op("find"), Op("findOne"),
                    Op("aggregate"), Op("countDocuments"), Op("estimatedDocumentCount"),
                    Op("createIndex"), Op("setReadConcern")>>),
              Lax(<<Op("findOneAndUpdate"), Op("findOneAndReplace"), Op("replaceOne"), Op("updateMany"),
                    Op("drop")>>) >>

Refused ==
  { <<[Base EXCEPT !.database = FALSE]>>, <<[Base EXCEPT !.collectionCount = TRUE]>>, <<Base>>,
    <<ContinuePhase>>, <<[StatesPhase EXCEPT !.operations = <<Op("find")>>]>>,
    <<[StatesPhase EXCEPT !.initialStates = <<>>]>>,
    <<[Phase(<<Op("find")>>) EXCEPT !.continue = "false"]>>,
    <<Phase(<<Op("upsert")>>)>>, <<Phase(<<NoSession(Op("startTransaction"))>>)>>,
    <<Phase(<<With("bulkWrite", <<Op("find")>>)>>)>>,
    <<Phase(<<With("withTransaction", <<Op("commitTransaction")>>)>>)>>,
    <<Phase(<<Session(Op("estimatedDocumentCount"))>>)>>,
    <<Phase(<<[Op("findOne") EXCEPT !.limited = TRUE]>>)>> }

MCWorkloads == {Machine2, ByHand, Managed, Throwing, Whole, Within, Reading} \cup Refused
StateWorkloads == {Machine2}
=============================================================================
