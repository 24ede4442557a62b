----------------------------- MODULE PacketTypes -----------------------------
(* The packets the repository declares: the subsystem and the identifier each   *)
(* is given by hand, and the fields it carries. The receiver knows a packet by  *)
(* these two numbers only.                                                      *)
(*                                                                              *)
(* A definition named Bug... is not the code: it is the definition after it     *)
(* with a plausible mistake, which a property of Archive must catch.            *)
EXTENDS MqlStructs

PacketSubsystemCrypto    == 1
PacketSubsystemNetwork   == 2
PacketSubsystemTradeInfo == 3
\* the number of the network packets is used again
BugPacketSubsystemNodeInfo == 2
PacketSubsystemNodeInfo  == 4

CryptoPackets  == [DHKeyExchangeRequest |-> 0, DHKeyExchangeResponse |-> 1]
NetworkPackets == [Ping |-> 0, Pong |-> 1, Message |-> 2, Echo |-> 3]
NodePackets    == [NodeInformationRequest |-> 0, NodeInformationResponse |-> 1]

TradePackets == [
  MQL_VersionRequest               |->  0, MQL_VersionResponse               |->  1,
  AccountInfoDoubleRequest         |->  2, AccountInfoDoubleResponse         |->  3,
  AccountInfoStringRequest         |->  4, AccountInfoStringResponse         |->  5,
  AccountInfoIntegerRequest        |->  6, AccountInfoIntegerResponse        |->  7,
  AccountInfoDoubleMinimalRequest  |->  8, AccountInfoDoubleMinimalResponse  |->  9,
  AccountInfoIntegerMinimalRequest |-> 10, AccountInfoIntegerMinimalResponse |-> 11,
  AccountInfoMinimalRequest        |-> 12, AccountInfoMinimalResponse        |-> 13,
  MQL4FullAccountInfoRequest       |-> 14, MQL4FullAccountInfoResponse       |-> 15,
  MQL5AccountInfoIntegerRequest    |-> 16, MQL5AccountInfoIntegerResponse    |-> 17,
  MQL5AccountInfoDoubleRequest     |-> 18, MQL5AccountInfoDoubleResponse     |-> 19,
  MQL5OrderInfoIntegerRequest      |-> 20, MQL5OrderInfoIntegerResponse      |-> 21,
  MQL5OrderInfoDoubleRequest       |-> 22, MQL5OrderInfoDoubleResponse       |-> 23,
  MQL5OrderInfoStringRequest       |-> 24, MQL5OrderInfoStringResponse       |-> 25,
  MQL5OrderInfoRequest             |-> 26, MQL5OrderInfoResponse             |-> 27,
  MQL5PositionInfoIntegerRequest   |-> 28, MQL5PositionInfoIntegerResponse   |-> 29,
  MQL5PositionInfoDoubleRequest    |-> 30, MQL5PositionInfoDoubleResponse    |-> 31,
  MQL5PositionInfoStringRequest    |-> 32, MQL5PositionInfoStringResponse    |-> 33,
  MQL5PositionInfoRequest          |-> 34, MQL5PositionInfoResponse          |-> 35,
  MQL5DealInfoIntegerRequest       |-> 36, MQL5DealInfoIntegerResponse       |-> 37,
  MQL5DealInfoDoubleRequest        |-> 38, MQL5DealInfoDoubleResponse        |-> 39,
  MQL5DealInfoStringRequest        |-> 40, MQL5DealInfoStringResponse        |-> 41,
  MQL5DealInfoRequest              |-> 42, MQL5DealInfoResponse              |-> 43,
  MQL4OrderInfoRequest             |-> 44, MQL4OrderInfoResponse             |-> 45 ]

\* the structure each response of the trade subsystem derives from, after PacketTag
BaseOf == [
  AccountInfoDoubleResponse         |-> "AccountInfoDouble",
  AccountInfoStringResponse         |-> "AccountInfoString",
  AccountInfoIntegerResponse        |-> "AccountInfoInteger",
  AccountInfoDoubleMinimalResponse  |-> "AccountInfoDoubleMinimal",
  AccountInfoIntegerMinimalResponse |-> "AccountInfoIntegerMinimal",
  AccountInfoMinimalResponse        |-> "AccountInfoMinimal",
  MQL4FullAccountInfoResponse       |-> "FullAccountInfo",
  MQL5AccountInfoIntegerResponse    |-> "Mql5AccountInfoInteger",
  MQL5AccountInfoDoubleResponse     |-> "Mql5AccountInfoDouble",
  MQL5OrderInfoIntegerResponse      |-> "OrderInfoInteger",
  MQL5OrderInfoDoubleResponse       |-> "OrderInfoDouble",
  MQL5OrderInfoStringResponse       |-> "OrderInfoString",
  MQL5OrderInfoResponse             |-> "OrderInfo",
  MQL5PositionInfoIntegerResponse   |-> "PositionInfoInteger",
  MQL5PositionInfoDoubleResponse    |-> "PositionInfoDouble",
  MQL5PositionInfoStringResponse    |-> "PositionInfoString",
  MQL5PositionInfoResponse          |-> "PositionInfo",
  MQL5DealInfoIntegerResponse       |-> "DealInfoInteger",
  MQL5DealInfoDoubleResponse        |-> "DealInfoDouble",
  MQL5DealInfoStringResponse        |-> "DealInfoString",
  MQL5DealInfoResponse              |-> "DealInfo",
  MQL4OrderInfoResponse             |-> "Mql4OrderInfo" ]

PacketTag == <<"uid">>
NodeInformation == <<"cpu_load", "gpu_load", "ram_load", "swap_load", "uptime",
                     "process_count", "ram_bytes", "swap_bytes", "opened_files",
                     "socket_count", "disks_load">>
DHKeyExchangeResponse == <<"public_key", "salt", "n_rounds", "signature">>

------------------------------------------------------------------------------
PacketNames == DOMAIN CryptoPackets \cup DOMAIN NetworkPackets \cup DOMAIN NodePackets
                 \cup DOMAIN TradePackets

\* what a packet is known by
UniqueId(p) ==
  CASE p \in DOMAIN CryptoPackets  -> <<PacketSubsystemCrypto, CryptoPackets[p]>>
    [] p \in DOMAIN NetworkPackets -> <<PacketSubsystemNetwork, NetworkPackets[p]>>
    [] p \in DOMAIN TradePackets   -> <<PacketSubsystemTradeInfo, TradePackets[p]>>
    [] p \in DOMAIN NodePackets    -> <<PacketSubsystemNodeInfo, NodePackets[p]>>

\* the fields a packet is serialised as, its bases first
Fields(p) ==
  CASE p \in DOMAIN BaseOf            -> PacketTag \o Serialized[BaseOf[p]]
    [] p = "MQL_VersionResponse"      -> PacketTag \o <<"MQL4", "MQL5">>
    [] p \in DOMAIN TradePackets \ (DOMAIN BaseOf \cup {"MQL_VersionResponse"}) -> PacketTag
    [] p = "DHKeyExchangeRequest"     -> <<"public_key">>
    [] p = "DHKeyExchangeResponse"    -> DHKeyExchangeResponse
    [] p = "Message"                  -> <<"message">>
    [] p = "Echo"                     -> <<"echo_message">>
    [] p = "NodeInformationResponse"  -> NodeInformation
    [] OTHER                          -> << >>

\* the fields its structure declares and leaves out
Omitted(p) == IF p \in DOMAIN BaseOf THEN NotSerialized[BaseOf[p]] ELSE {}

FieldSet(p) == ToSet(Fields(p)) \cup Omitted(p)
PacketEnums(p) == IF p \in DOMAIN BaseOf THEN EnumsOf(BaseOf[p]) ELSE << >>
=============================================================================
