------------------------------- MODULE MqlEnums -------------------------------
(* The enumerations of common/mql-cpp: each a function from its enumerators to   *)
(* the numbers they are written as, most of them by hand.                        *)
(*                                                                              *)
(* A definition named Bug... is not the code: it is the definition after it     *)
(* with a plausible mistake, which a property of Archive must catch.            *)
EXTENDS Integers

EnumAccountTradeMode == [Demo |-> 0, Contest |-> 1, Real |-> 2]
EnumAccountStopOutMode == [Percent |-> 0, Money |-> 1]
EnumAccountMarginMode == [RetailNetting |-> 0, Exchange |-> 1, RetailHedging |-> 2]
EnumOrderType == [Buy |-> 0, Sell |-> 1, BuyLimit |-> 2, SellLimit |-> 3, BuyStop |-> 4,
  SellStop |-> 5, BuyStopLimit |-> 6, SellStopLimit |-> 7, CloseBy |-> 8]
EnumOrderState == [Started |-> 0, Placed |-> 1, Canceled |-> 2, Partial |-> 3, Filled |-> 4,
  Rejected |-> 5, Expired |-> 6, RequestAdd |-> 7, RequestModify |-> 8, RequestCancel |-> 9]
EnumOrderTypeFilling == [FOK |-> 0, IOC |-> 1, BOC |-> 2, Return |-> 3]
EnumOrderTypeTime == [GTC |-> 0, Day |-> 1, Specified |-> 2, SpecifiedDay |-> 3]
EnumOrderReason == [CLIENT |-> 0, MOBILE |-> 1, WEB |-> 2, EXPERT |-> 3, SL |-> 4,
  TP |-> 5, SO |-> 6]
EnumPositionType == [Buy |-> 0, Sell |-> 1]
EnumPositionReason == [Client |-> 0, Mobile |-> 1, Web |-> 2, Expert |-> 3]
EnumDealType == [Buy |-> 0, Sell |-> 1, Balance |-> 2, Credit |-> 3, Charge |-> 4,
  Correction |-> 5, Bonus |-> 6, Commission |-> 7, CommissionDaily |-> 8,
  CommissionMonthly |-> 9, CommissionAgentDaily |-> 10, CommissionAgentMonthly |-> 11,
  Interest |-> 12, BuyCanceled |-> 13, SellCanceled |-> 14, Dividend |-> 15,
  DividendFranked |-> 16, Tax |-> 17]
EnumDealEntry == [In |-> 0, Out |-> 1, InOut |-> 2, OutBy |-> 3]

\* a number is used twice
BugEnumDealReason == [Client |-> 0, Mobile |-> 1, Web |-> 2, Expert |-> 3, SL |-> 4,
  TP |-> 5, SO |-> 6, Rollover |-> 7, VMargin |-> 8, Split |-> 8]
EnumDealReason == [Client |-> 0, Mobile |-> 1, Web |-> 2, Expert |-> 3, SL |-> 4,
  TP |-> 5, SO |-> 6, Rollover |-> 7, VMargin |-> 8, Split |-> 9]

\* The serialize function of an enumeration writes an enumerator as an int ...
EnumToWire(enum, enumerator) == enum[enumerator]
\* ... and casts the int it reads back.
EnumFromWire(enum, code) == CHOOSE enumerator \in DOMAIN enum : enum[enumerator] = code
=============================================================================
