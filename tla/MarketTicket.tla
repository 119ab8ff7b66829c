----------------------------- MODULE MarketTicket -----------------------------
(***************************************************************************)
(* The ticket of MarketsView with the two selections it rests on: the      *)
(* market App.tsx shows in it, and the market id of useWeb3Flow.ts, which  *)
(* placeBet sends, and which the claims card of the portfolio edits too.   *)
(***************************************************************************)
EXTENDS MarketScreens
LOCAL INSTANCE FiniteSetsExt

VARIABLES
  selectedMarketId,  \* of App: the last market chosen in the list
  marketId,          \* of useWeb3Flow: the market operations are sent for
  bet                \* history: the last bet confirmed, <<shown, sent>>

ticketVars == <<vars, selectedMarketId, marketId, bet>>

screen == <<selectedMarketId, marketId>>

TicketInit == Init /\ selectedMarketId = 1 /\ marketId = 1 /\ bet = << >>

\* The market chosen while it is open, else the first open one.
selectedMarketView ==
  IF selectedMarketId \in openMarketViews THEN selectedMarketId
  ELSE Min(openMarketViews)

\* The list holds the open markets.
chooseMarketById(m) ==
  /\ m \in openMarketViews
  /\ selectedMarketId' = m
  /\ marketId' = m
  /\ UNCHANGED <<vars, bet>>

\* The field "Market ID" of the card "Cobros".
setMarketId(m) ==
  /\ marketId' = m
  /\ UNCHANGED <<vars, selectedMarketId, bet>>

\* placeBet: the contract takes the bet, or the transaction reverts.
ConfirmBet(u, o, amount) ==
  /\ openMarketViews # {}
  /\ canBet(u, selectedMarketView, amount)
  /\ bet' = <<selectedMarketView, marketId>>
  /\ IF ~paused /\ BetAccepted(market[marketId], o, amount)
       THEN PlaceBet(u, marketId, o, amount)
       ELSE UNCHANGED vars
  /\ UNCHANGED screen

TicketNext ==
  \/ \E m \in MarketIds : chooseMarketById(m) \/ setMarketId(m)
  \/ \E u \in Users, o \in TicketOutcomes, amount \in TicketAmounts :
       ConfirmBet(u, o, amount)
  \/ Next /\ UNCHANGED <<screen, bet>>

TicketSpec == TicketInit /\ [][TicketNext]_ticketVars

-----------------------------------------------------------------------------
(***************************************************************************)
(* Properties                                                              *)
(***************************************************************************)

\* A bet confirmed on the ticket is for the market the ticket shows: when the
\* selected market stops being open, the selection moves to the next open one
\* or to none, for what is sent as for what is shown.
BetIsForShownMarket == bet # << >> => bet[1] = bet[2]
=============================================================================
