----------------------------- MODULE MCAdapters -----------------------------
EXTENDS Adapters

\* An instance through its life, or changed while it is started and stopped.
LifeCycle == {"create", "delete", "restore", "purge_deleted", "cleanup_failed", "update_version",
              "start", "stop", "restart", "refresh_ingress"}
Provider  == {"create", "start", "stop", "delete", "restore", "set_model_provider"}
Site      == {"create", "start", "stop", "delete", "restore", "install_skill", "set_basic_auth"}
AllMenus  == {LifeCycle, Provider, Site}
JustLife  == {LifeCycle}
=============================================================================
