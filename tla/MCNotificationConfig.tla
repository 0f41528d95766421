------------------------ MODULE MCNotificationConfig ------------------------
EXTENDS NotificationConfig

\* Up to three events: enough for a zero element before a failing one.
MCMaxEvents == 3

=============================================================================
