------------------------------- MODULE Coding -------------------------------
(***************************************************************************)
(* What VouchersService asks of the lines of a voucher, and the ledger     *)
(* lines buildPostingLines makes of them.  A voucher is checked against    *)
(* the masters in one step when it is raised: whatever might change        *)
(* between two of those reads can as well change before it is posted, and  *)
(* posting looks only at the bank account.                                 *)
(***************************************************************************)
EXTENDS Settings, Functions

\* A body of CreateVoucherDto as far as the ledger tells: amounts in cents.
VoucherLine ==
  [head : Heads, fund : Funds, project : Projects \cup {Null}, amount : Nat \ {0},
   side : {"debit", "credit", Null}]
VoucherBody ==
  [kind : {"receipt", "payment", "contra", "journal"}, mode : {"cash", "bank", Null},
   bank : Banks \cup {Null}, lines : Seq(VoucherLine)]

ASSUME VouchersAssumption == Offers.voucher \subseteq VoucherBody

\* The sum of the lines numbered I.
SumLines(lines, I) == SumFunctionOnSet([i \in I |-> lines[i].amount], I)

On(lines, side) == {i \in DOMAIN lines : lines[i].side = side}

JournalIsBalanced(lines) ==
  LET debit  == SumLines(lines, On(lines, "debit"))
      credit == SumLines(lines, On(lines, "credit"))
  IN debit > 0 /\ debit = credit

VoucherTotal(body) ==
  SumLines(body.lines,
           IF body.kind = "journal" THEN On(body.lines, "debit") ELSE DOMAIN body.lines)

-----------------------------------------------------------------------------
(* validateCoding *)

HeadsFor(kind) ==
  CASE kind = "receipt" -> {"income", "asset", "liability", "equity"}
    [] kind = "payment" -> {"expense", "asset", "liability", "equity"}
    [] kind = "journal" -> {"income", "expense", "asset", "liability", "equity"}

MoneyHeads == {Accounting.cash} \cup {bank[b].head : b \in {c \in Banks : bank[c] # Unborn}}

\* assertShape
Shapely(body) ==
  /\ body.kind = "journal" =>
       /\ Len(body.lines) >= 2
       /\ \A i \in DOMAIN body.lines : body.lines[i].side # Null
       /\ JournalIsBalanced(body.lines)
       /\ body.mode = Null /\ body.bank = Null
  /\ body.kind # "journal" =>
       /\ \A i \in DOMAIN body.lines : body.lines[i].side = Null
       /\ body.mode # Null
  /\ body.kind = "contra" => Len(body.lines) = 1 /\ body.lines[1].project = Null

Usable(b) == bank[b].active     \* BankAccountsService.assertUsable

Suits(kind, h) ==
  IF kind = "contra"
  THEN h \in MoneyHeads /\ \A b \in Banks : bank[b] # Unborn /\ bank[b].head = h => Usable(b)
  ELSE h \notin MoneyHeads /\ head[h].type \in HeadsFor(kind)

LineIsUsable(kind, l) ==
  /\ head[l.head].active /\ head[l.head].postable     \* AccountsService.assertPostable
  /\ Suits(kind, l.head)
  /\ fund[l.fund].active
  /\ l.project # Null => project[l.project].active /\ project[l.project].fund = l.fund

\* The cash or bank head the money moves through.
SourceHead(body) == IF body.mode = "cash" THEN Accounting.cash ELSE bank[body.bank].head

SourceIsUsable(body) ==
  /\ body.mode = "bank" => body.bank # Null /\ Usable(body.bank)
  /\ body.mode = "cash" => body.bank = Null
  /\ body.kind = "contra" => body.lines[1].head # SourceHead(body)

ValidCoding(body) ==
  /\ Shapely(body)
  /\ \A i \in DOMAIN body.lines : LineIsUsable(body.kind, body.lines[i])
  /\ body.mode # Null => SourceIsUsable(body)

-----------------------------------------------------------------------------
(* buildPostingLines *)

\* The bank account a contra's money goes to.
BankAt(kind, h) ==
  LET on == {b \in Banks : bank[b] # Unborn /\ bank[b].head = h}
  IN IF kind = "contra" /\ h # Accounting.cash /\ on # {} THEN CHOOSE b \in on : TRUE ELSE Null

Posting(h, f, p, side, amount, b) ==
  [head |-> h, fund |-> f, project |-> p, bank |-> b,
   debit |-> IF side = "debit" THEN amount ELSE 0,
   credit |-> IF side = "credit" THEN amount ELSE 0]

CodingLines(body, side) ==
  [i \in DOMAIN body.lines |->
     LET l == body.lines[i]
     IN Posting(l.head, l.fund, l.project, side, l.amount, BankAt(body.kind, l.head))]

\* Mutant: the whole contra goes to the fund of the first line.
BugContraLines(body, side) ==
  <<Posting(SourceHead(body), body.lines[1].fund, Null, side, VoucherTotal(body), body.bank)>>

\* The lines numbered I, first to last.
InOrder(I) ==
  CHOOSE at \in [1..Cardinality(I) -> I] :
    \A m, n \in 1..Cardinality(I) : m < n => at[m] < at[n]

OfFund(lines, f) == {i \in DOMAIN lines : lines[i].fund = f}

\* One contra line for each fund, in the order the lines first name them.
ContraLines(body, side) ==
  LET fundOf(i) == body.lines[i].fund
      first == InOrder({i \in DOMAIN body.lines : \A j \in 1..(i - 1) : fundOf(j) # fundOf(i)})
  IN [n \in DOMAIN first |->
        LET f == fundOf(first[n])
        IN Posting(SourceHead(body), f, Null, side,
                   SumLines(body.lines, OfFund(body.lines, f)), body.bank)]

\* The lines of one side, as written.
AsWritten(body, side) ==
  LET at == InOrder(On(body.lines, side))
  IN [n \in DOMAIN at |->
        LET l == body.lines[at[n]]
        IN Posting(l.head, l.fund, l.project, side, l.amount, Null)]

JournalLines(body) == AsWritten(body, "debit") \o AsWritten(body, "credit")

PostingLines(body) ==
  CASE body.kind = "journal" -> JournalLines(body)
    [] body.kind = "receipt" -> ContraLines(body, "debit") \o CodingLines(body, "credit")
    [] OTHER                 -> CodingLines(body, "debit") \o ContraLines(body, "credit")

Total(lines, I, side) == SumFunctionOnSet([i \in I |-> lines[i][side]], I)

BalancedOver(lines, I) == Total(lines, I, "debit") = Total(lines, I, "credit")

\* assert_voucher_balanced, the deferred trigger
Balanced(lines) == BalancedOver(lines, DOMAIN lines)

-----------------------------------------------------------------------------
(* The life of a voucher, as far as its lines are concerned *)

\* Created, or edited before it is approved.
Raise ==
  /\ \E v \in Vouchers, body \in Offers.voucher :
       /\ voucher[v].status \in {"Absent", "Draft"}
       /\ ValidCoding(body)
       /\ voucher' = [voucher EXCEPT ![v] =
            [status |-> "Draft", body |-> body, amount |-> VoucherTotal(body), entries |-> <<>>]]
  /\ UNCHANGED <<chart, dimensions, asset, settings, request>>

\* Submitted and approved; neither looks at the lines.
Approve ==
  /\ \E v \in Vouchers :
       /\ voucher[v].status = "Draft"
       /\ voucher' = [voucher EXCEPT ![v].status = "Approved"]
  /\ UNCHANGED <<chart, dimensions, asset, settings, request>>

Post ==
  /\ \E v \in Vouchers :
       /\ voucher[v].status = "Approved"
       /\ LET body == voucher[v].body
          IN /\ body.mode = "bank" => Usable(body.bank)     \* sourceHeadOf
             /\ Balanced(PostingLines(body))
             /\ voucher' = [voucher EXCEPT ![v].status = "Posted",
                                           ![v].entries = PostingLines(body)]
  /\ UNCHANGED <<chart, dimensions, asset, settings, request>>

CodingNext == Raise \/ Approve \/ Post
=============================================================================
