------------------------ MODULE MCRecurringReminders ------------------------
EXTENDS RecurringReminders

=============================================================================
