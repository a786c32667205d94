----------------------------- MODULE StatusCodes -----------------------------
(***************************************************************************)
(* proto-service's Code and the constructors of Status.  A status is its   *)
(* code, and a code its i32 (repr(i32)); messages are left out.            *)
(***************************************************************************)
EXTENDS Integers

Code == [Ok |-> 0, Cancelled |-> 1, Unknown |-> 2, InvalidArgument |-> 3, DeadlineExceeded |-> 4,
         NotFound |-> 5, AlreadyExists |-> 6, PermissionDenied |-> 7, ResourceExhausted |-> 8,
         FailedPrecondition |-> 9, Aborted |-> 10, OutOfRange |-> 11, Unimplemented |-> 12,
         Internal |-> 13, Unavailable |-> 14, DataLoss |-> 15, Unauthenticated |-> 16]

Codes == {Code[name] : name \in DOMAIN Code}

Status == [ok |-> Code.Ok, cancelled |-> Code.Cancelled, unknown |-> Code.Unknown,
           invalid_argument |-> Code.InvalidArgument, deadline_exceeded |-> Code.DeadlineExceeded,
           not_found |-> Code.NotFound, already_exists |-> Code.AlreadyExists,
           permission_denied |-> Code.PermissionDenied,
           resource_exhausted |-> Code.ResourceExhausted,
           failed_precondition |-> Code.FailedPrecondition, aborted |-> Code.Aborted,
           out_of_range |-> Code.OutOfRange, unimplemented |-> Code.Unimplemented,
           internal |-> Code.Internal, unavailable |-> Code.Unavailable,
           data_loss |-> Code.DataLoss, unauthenticated |-> Code.Unauthenticated]

\* Slips CodeFrom could make: another default, or none.
CodeOrOk(i) == IF i \in Codes THEN i ELSE Code.Ok
AnyCode(i) == i

\* Code::from(i32)
CodeFrom(i) == IF i \in Codes THEN i ELSE Code.Unknown

\* From<SendError>, From<SendHeadersError> for Status
FromSendError == Code.Cancelled
FromSendHeadersError == [Closed |-> Code.Cancelled, AlreadyOpened |-> Status.internal]
=============================================================================
