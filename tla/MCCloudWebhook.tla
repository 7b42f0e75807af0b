---- MODULE MCCloudWebhook ----
EXTENDS CloudWebhook
====
