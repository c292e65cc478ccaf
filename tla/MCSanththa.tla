----------------------------- MODULE MCSanththa -----------------------------
(* Model-checking instance of Sanththa, with a history: were two handlers, or a  *)
(* handler and the desk, ever at work at once; was a handler ever stopped        *)
(* between the receipt and the register.                                         *)
EXTENDS Sanththa, Naturals, TLC

VARIABLES overlapped, interrupted

Busy == {r \in Requests : request[r] # Idle}

(* The handlers that have touched a receipt and not yet the register *)
Between ==
  {r \in Busy : <<request[r].op, request[r].pc>> \in
     {<<"record", "submit">>, <<"record", "insert">>, <<"update", "submit">>, <<"update", "write">>}}

(* The register refuses the row of a receipt already raised. *)
Refused(r) == At(r, "record", "insert") /\ (Paid(request[r].due) \/ ~Unused(request[r].receipt))

Holds(r, v) ==
  \/ request[r].op # "unenrol" /\ request[r].op # "enrol" /\ request[r].receipt = v
  \/ At(r, "record", "raise")

(* The desk or a handler of one statement lands while another is in flight. *)
Meanwhile == Busy # {} /\ request' = request /\ tables' # tables

MCInit == Init /\ overlapped = FALSE /\ interrupted = FALSE
MCNext ==
  /\ Next
  /\ overlapped' = (overlapped \/ Meanwhile
        \/ \E r, s \in Requests : r # s /\ request'[r] # Idle /\ request'[s] # Idle)
  /\ interrupted' = (interrupted \/ \E r \in Between : Abort(r) /\ ~Refused(r))
MCSpec == MCInit /\ [][MCNext]_<<vars, overlapped, interrupted>>

\* As long as handlers follow one another and none is stopped after its receipt, what
\* is receipted is what is registered.  (record, update.)
ReceiptsMatchUntilOverlap ==
  ~overlapped /\ ~interrupted /\ Between = {} => ReceiptsMatchRegister

\* As long as handlers follow one another, no subscription is taken on a discarded
\* receipt and whoever has paid stays enrolled.  (assertReceipt, unenrol.)
PaidUntilOverlap == [][~overlapped' => TakenOnLiveReceipt /\ PaidStaysEnrolled]_vars

(* Bound: handlers that overlap are followed to their end, with the desk at work on   *)
(* the vouchers they hold, and nothing after.                                         *)
TwoOverlap ==
  overlapped =>
    /\ Busy # {}
    /\ \A r \in Requests : request[r] = Idle => request'[r] = Idle
    /\ <<rate, active>>' = <<rate, active>>
    /\ \A v \in Vouchers : voucher'[v] = voucher[v] \/ \E r \in Busy : Holds(r, v)

(* Bound: rates and lists are set while at most one voucher is raised: a rate only    *)
(* stands for an amount, and only one payment at a time meets a list.                *)
ListsBound ==
  enrolled # {} \/ (\E m \in Members : ~active[m]) \/ (\E y \in Years : rate[y] # Null) =>
    Cardinality({v \in Vouchers : Raised(v)}) <= 1

(* Bound: after a stop handlers follow one another, and a request that names a        *)
(* receipt names the amount too.                                                      *)
Offered ==
  /\ interrupted /\ Busy # {} => \A r \in Requests : request[r] = Idle => request'[r] = Idle
  /\ \A r \in Requests :
       request'[r] # Idle /\ request'[r].pc = "price" => (request'[r].receipt # Null => request'[r].amount # Null)

(* Bound: of a voucher of the wrong kind only the kind is looked at. *)
KindsBound == \A v \in Vouchers : Raised(v) /\ voucher[v].kind = "payment" => voucher[v].status = "Draft"

Symmetry == Permutations(Members) \cup Permutations(Vouchers)
            \cup Permutations(Amounts) \cup Permutations(Requests)
=============================================================================
