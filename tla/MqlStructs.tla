------------------------------ MODULE MqlStructs ------------------------------
(* The structures of common/mql-cpp that the account and trade packets carry:   *)
(* what each of them declares, and what its serialize function writes to an     *)
(* archive and reads back from one, in order. One list stands for both where    *)
(* they agree.                                                                  *)
EXTENDS MqlEnums, Sequences, SequencesExt

CONSTANT Half        \* half the numbers an int64_t and a uint64_t can hold

ASSUME HalfAssumption == Half \in Nat \ {0}

------------------------------------------------------------------------------
(* common: account-info.hpp *)

AccountInfoDouble == <<"balance", "credit", "profit", "equity", "margin", "margin_free",
                       "margin_level", "margin_so_call", "margin_so_so">>
AccountInfoString == <<"account_name", "trade_server_name", "account_currency",
                       "account_company">>
AccountInfoInteger == <<"account_login", "trade_mode", "account_leverage", "limit_orders",
                        "margin_so_mode", "trade_allowed", "expert_trade_allowed">>
AccountInfoDoubleMinimal  == <<"balance", "profit", "equity", "margin", "margin_free">>
AccountInfoIntegerMinimal == <<"account_login", "account_leverage">>
AccountInfoMinimal ==
  AccountInfoIntegerMinimal \o AccountInfoDoubleMinimal \o AccountInfoString
FullAccountInfo == AccountInfoInteger \o AccountInfoDouble \o AccountInfoString

\* mql5: these two derive from the common structures, whose fields they leave out
Mql5AccountInfoInteger == <<"margin_mode", "currency_digits", "fifo_close", "hedge_allowed">>
Mql5AccountInfoDouble  == <<"margin_initial", "margin_maintenance", "assets", "liabilities",
                            "commission_blocked">>

------------------------------------------------------------------------------
(* mql5: trade-info.hpp *)

OrderInfoIntegerFields ==
  {"ticket", "time_setup", "type", "state", "time_expiration", "time_done",
   "time_setup_msc", "time_done_msc", "type_filling", "type_time", "magic", "reason",
   "position_id", "position_by_id"}
\* state stands where type_filling, type_time and reason were meant
OrderInfoInteger == <<"ticket", "time_setup", "type", "state", "time_expiration",
                      "time_done", "time_setup_msc", "time_done_msc", "state", "state",
                      "magic", "state", "position_id", "position_by_id">>
OrderInfoDouble == <<"volume_initial", "volume_current", "price_open", "stop_loss",
                     "take_profit", "price_current", "stop_limit">>
OrderInfoString == <<"symbol", "comment", "external_id">>
OrderInfo == OrderInfoInteger \o OrderInfoDouble \o OrderInfoString

PositionInfoInteger == <<"ticket", "open_time", "open_time_msc", "time_update",
                         "time_update_msc", "type", "magic", "identifier", "reason">>
PositionInfoDouble  == <<"volume", "price_open", "stop_loss", "take_profit",
                         "price_current", "swap", "profit">>
PositionInfoString  == <<"symbol", "comment", "external_id">>
PositionInfo == PositionInfoInteger \o PositionInfoDouble \o PositionInfoString

DealInfoInteger == <<"ticket", "order", "time", "time_msc", "type", "entry", "magic",
                     "reason", "position_id">>
DealInfoDouble  == <<"volume", "price", "commission", "swap", "profit", "fee",
                     "stop_loss", "take_profit">>
DealInfoString  == <<"symbol", "comment", "external_id">>
DealInfo == DealInfoInteger \o DealInfoDouble \o DealInfoString

\* mql4; take_profit is declared and not serialised
Mql4OrderInfo == <<"close_price", "close_time", "comment", "commission", "expiration",
                   "lots", "magic", "open_price", "open_time", "order_profit",
                   "stop_loss", "swap", "symbol", "ticket", "type">>

------------------------------------------------------------------------------
\* what serialize writes and reads, bases first
Serialized == [
  AccountInfoDouble         |-> AccountInfoDouble,
  AccountInfoString         |-> AccountInfoString,
  AccountInfoInteger        |-> AccountInfoInteger,
  AccountInfoDoubleMinimal  |-> AccountInfoDoubleMinimal,
  AccountInfoIntegerMinimal |-> AccountInfoIntegerMinimal,
  AccountInfoMinimal        |-> AccountInfoMinimal,
  FullAccountInfo           |-> FullAccountInfo,
  Mql5AccountInfoInteger    |-> Mql5AccountInfoInteger,
  Mql5AccountInfoDouble     |-> Mql5AccountInfoDouble,
  OrderInfoInteger          |-> OrderInfoInteger,
  OrderInfoDouble           |-> OrderInfoDouble,
  OrderInfoString           |-> OrderInfoString,
  OrderInfo                 |-> OrderInfo,
  PositionInfoInteger       |-> PositionInfoInteger,
  PositionInfoDouble        |-> PositionInfoDouble,
  PositionInfoString        |-> PositionInfoString,
  PositionInfo              |-> PositionInfo,
  DealInfoInteger           |-> DealInfoInteger,
  DealInfoDouble            |-> DealInfoDouble,
  DealInfoString            |-> DealInfoString,
  DealInfo                  |-> DealInfo,
  Mql4OrderInfo             |-> Mql4OrderInfo ]

\* what the structure declares or inherits besides
NotSerialized == [
  s \in DOMAIN Serialized |->
    CASE s = "Mql5AccountInfoInteger"        -> ToSet(AccountInfoInteger)
      [] s = "Mql5AccountInfoDouble"         -> ToSet(AccountInfoDouble)
      [] s \in {"OrderInfoInteger", "OrderInfo"} ->
           OrderInfoIntegerFields \ ToSet(OrderInfoInteger)
      [] s = "Mql4OrderInfo"                 -> {"take_profit"}
      [] OTHER                               -> {} ]

------------------------------------------------------------------------------
(* The two kinds of field that are converted on their way: dates, enumerators *)

\* MQL_DateTime travels as a uint64_t count of milliseconds ...
DateFields == {"time_setup", "time_expiration", "time_done", "open_time", "time_update",
               "time", "close_time", "expiration"}
Dates == -Half..(Half - 1)
DateToWire(date) == date % (2 * Half)
\* ... and comes back through std::chrono::milliseconds, whose count is signed
DateFromWire(count) == IF count >= Half THEN count - 2 * Half ELSE count

\* The fields that are enumerations, each with its own; mql4 has an int for a type.
AccountEnums  == [trade_mode |-> EnumAccountTradeMode, margin_so_mode |-> EnumAccountStopOutMode]
Mql5AccountEnums == [trade_mode |-> EnumAccountTradeMode, margin_so_mode |-> EnumAccountStopOutMode,
                     margin_mode |-> EnumAccountMarginMode]
OrderEnums    == [type |-> EnumOrderType, state |-> EnumOrderState,
                  type_filling |-> EnumOrderTypeFilling, type_time |-> EnumOrderTypeTime,
                  reason |-> EnumOrderReason]
PositionEnums == [type |-> EnumPositionType, reason |-> EnumPositionReason]
DealEnums     == [type |-> EnumDealType, entry |-> EnumDealEntry, reason |-> EnumDealReason]

EnumsOf(s) ==
  CASE s \in {"AccountInfoInteger", "FullAccountInfo"} -> AccountEnums
    [] s = "Mql5AccountInfoInteger"                  -> Mql5AccountEnums
    [] s \in {"OrderInfoInteger", "OrderInfo"}       -> OrderEnums
    [] s \in {"PositionInfoInteger", "PositionInfo"} -> PositionEnums
    [] s \in {"DealInfoInteger", "DealInfo"}         -> DealEnums
    [] OTHER -> << >>
=============================================================================
