------------------------ MODULE MCNotificationOutbox ------------------------
(* Model-checking instance of NotificationOutbox: an Apple dispatcher and a *)
(* Telegram dispatcher, a phone, a tablet and a chat.                       *)
EXTENDS NotificationOutbox

CONSTANTS phone, tablet, chat, apns, tele

MCProvider == [d \in Device |-> IF d = chat THEN "telegram" ELSE "apns"]
MCServes == [p \in Dispatcher |-> IF p = tele THEN {"telegram"} ELSE {"apns"}]
OneDelay == <<1>>
=============================================================================
